---------------------------- MODULE Spec2Model ----------------------------
(***************************************************************************)
(* A model of the dip-arbitrage bot: the dip detector (dip-detector.ts),   *)
(* the orderbook handler (index.ts), the dual-leg executor (executor.ts),  *)
(* the position manager, the resolution tracker and the market data        *)
(* service (market-data.ts): its tokens, websocket stream and rotation.    *)
(*                                                                         *)
(* Units.  Prices and dollar amounts are in cents, sizes in shares, time   *)
(* in units of 30 000 ms.  The code computes in IEEE doubles; the model    *)
(* computes the same expressions in exact rationals [n, d].                *)
(*                                                                         *)
(* Configuration.  The defaults of config.ts: live trading (PAPER_TRADING  *)
(* false), the 1h timeframe, Strategy B disabled, the executor ready.      *)
(* Exchange responses carry no average price.  savePosition and logEvent   *)
(* may throw in the orderbook handler; the resolution tracker is modelled  *)
(* with a database and an API that answer.                                 *)
(*                                                                         *)
(* The pending-trade set (markTradePending, clearTradePending) and         *)
(* getMaxTotalCost are imported by index.ts and executor.ts from modules   *)
(* whose text does not define them; they are modelled from the             *)
(* specification's description.                                            *)
(***************************************************************************)
EXTENDS Integers, Sequences, FiniteSets, TLC

VARIABLES
    now,             \* Date.now()
    orderbookCache,  \* market-data.ts orderbookCache: market -> Orderbook
    activeDips,      \* dip-detector.ts activeDips: market -> ActiveDip
    lastTradeTime,   \* dip-detector.ts lastTradeTime: market -> time
    pendingTrades,   \* PendingAdmission: set of markets
    detection,       \* the DetectionResult detectDip last returned to its caller
    threshold,       \* runtime-config.ts threshold (getThreshold/setThreshold)
    isRunning,       \* index.ts isRunning
    maxOpenPositions,\* runtime-config.ts maxOpenPositions
    handlers,        \* index.ts handleOrderbookUpdate invocations, by slot
    openPositions,   \* position-manager.ts openPositions: id -> Position
    dbPositions,     \* db.ts positions table: id -> Position
    transitions,     \* id -> number of writes that moved the position out of open
    nextCheckTimeout,\* resolution-tracker.ts nextCheckTimeout: a timer is pending
    checks,          \* resolution-tracker.ts checkResolutions invocations
    closedMarkets,   \* the <<market, window>> pairs the exchange reports closed
    serverOffset,    \* hours the server's time zone is ahead of Eastern Time
    marketTokens,    \* market-data.ts marketTokens: map key -> MarketTokens
    tokenIdLookup,   \* market-data.ts tokenIdLookup: token id -> token info
    nextWindowTokens,\* market-data.ts nextWindowTokens: symbol -> MarketTokens
    rotation,        \* the executeWindowRotation and prefetch calls in flight
    sockets,         \* the WebSocket objects connectWebSocket has created
    wsConnection,    \* market-data.ts wsConnection: a socket, or 0 for null
    timers,          \* market-data.ts reconnect, rotation and prefetch timeouts
    exited,          \* index.ts shutdown has reached process.exit
    orderbookCallbacks, \* market-data.ts orderbookCallbacks
    invoked,         \* the callbacks invoked for the last websocket update
    updateCount,     \* market-data.ts updateCount
    events,          \* the DIP STARTED and DIP ENDED records logged by detectDip
    orderCache,      \* order-presigner.ts orderCache: cache key -> PreSignedOrder
    hotMarkets,      \* order-presigner.ts hotMarkets
    signing,         \* the presignOrder calls awaiting clobClient.createOrder
    cacheHits,       \* order-presigner.ts cacheHits
    cacheMisses,     \* order-presigner.ts cacheMisses
    lastLookup,      \* the last getPresignedOrder call: its key, age and result
    elapsed,         \* Date.now() past the instant now, in units of 5 000 ms
    windowTiming     \* the last getMsUntilNextWindow call and what it returned

detectorVars == <<activeDips, lastTradeTime, pendingTrades, detection>>
handlerVars == <<isRunning, maxOpenPositions, handlers>>
positionVars == <<openPositions, dbPositions, transitions>>
trackerVars == <<nextCheckTimeout, checks, closedMarkets, serverOffset>>

connVars == <<sockets, wsConnection, timers, exited>>

ingestVars == <<marketTokens, tokenIdLookup, nextWindowTokens, rotation,
                orderbookCallbacks, invoked, updateCount, events, connVars>>

presignVars == <<orderCache, hotMarkets, signing, cacheHits, cacheMisses,
                 lastLookup, elapsed>>

vars == <<now, orderbookCache, threshold, detectorVars, handlerVars,
          positionVars, trackerVars, ingestVars, presignVars, windowTiming>>

-----------------------------------------------------------------------------
(* Bounds of the model *)

MaxTime == 2
MaxUpdates == 2
MaxHandlers == 2
MaxWindows == 2
MaxSockets == 3

(* Program constants (configuration defaults and literals) *)

DIP_THRESHOLD == 94           \* DIP_THRESHOLD 0.94, in cents
minProfit == 3                \* MIN_PROFIT 0.03, in cents
maxPositionSize == 30000      \* MAX_POSITION_SIZE 300 USD, in cents
cooldownMs == 1               \* COOLDOWN_MS 30000, in units of 30 000 ms
riskPerTradePct == 5          \* RISK_PER_TRADE 0.05
initialBalance == 100000      \* INITIAL_BALANCE 1000 USD, in cents
maxSlippagePct == 2           \* MAX_SLIPPAGE_PCT 0.02, in percent
minProfitAfterSlippage == 1   \* MIN_PROFIT_AFTER_SLIPPAGE 0.01, in percent
feeRatePct == 0               \* feeRates['1h'] 0.00, in percent
TARGET_TRADE_SIZE == 10000    \* 100 USD, in cents
MIN_REALISTIC_PRICE == 5      \* 0.05, in cents
MIN_TRADE_USDC == 5000        \* 50 USD, in cents
MAX_TRADE_USDC == 20000       \* 200 USD, in cents
MAX_OPEN_POSITIONS == 3       \* MAX_OPEN_POSITIONS 3
LIMIT_BUFFER == 2             \* the 0.02 limit-price buffer, in cents
marketDurationMs == 120       \* TIMEFRAME_DURATION_MS['1h'], in units of 30 000 ms
RESOLUTION_DELAY_MS == 2      \* 60 * 1000, in units of 30 000 ms
StartTime == 1                \* the epoch is at least one cooldown in the past

Markets == {"BTC", "ETH"}

-----------------------------------------------------------------------------
(* Exact rationals, for the code's floating-point expressions *)

Abs(x) == IF x < 0 THEN -x ELSE x

RECURSIVE Gcd(_, _)
Gcd(a, b) == IF b = 0 THEN a ELSE Gcd(b, a % b)

\* the fraction nn / dd, reduced by their greatest common divisor g
Reduced(nn, dd, g) ==
    IF dd < 0 THEN [n |-> -(nn \div g), d |-> -(dd \div g)]
    ELSE [n |-> nn \div g, d |-> dd \div g]

\* n / d in lowest terms with a positive denominator (n and d are bound, so
\* that each is evaluated once)
Q(n, d) ==
    CHOOSE q \in { Reduced(nn, dd, Gcd(Abs(nn), Abs(dd))) :
                      nn \in {n}, dd \in {d} } : TRUE

QInt(i) == [n |-> i, d |-> 1]
QAdd(a, b) == Q(a.n * b.d + b.n * a.d, a.d * b.d)
QSub(a, b) == Q(a.n * b.d - b.n * a.d, a.d * b.d)
QMul(a, b) == Q(a.n * b.n, a.d * b.d)
QDiv(a, b) == Q(a.n * b.d, a.d * b.n)
QLt(a, b) == a.n * b.d < b.n * a.d
QLe(a, b) == a.n * b.d <= b.n * a.d
QMin(a, b) == IF QLt(b, a) THEN b ELSE a
QMax(a, b) == IF QLt(a, b) THEN b ELSE a

-----------------------------------------------------------------------------
(* dip-detector.ts: pure helpers *)

RECURSIVE FillWalk(_, _, _, _, _, _)
FillWalk(asks, i, remainingShares, totalCost, filledShares, levelsUsed) ==
    IF i > Len(asks) \/ QLe(remainingShares, QInt(0))
    THEN [totalCost |-> totalCost, filledShares |-> filledShares,
          levels |-> levelsUsed]
    ELSE LET sharesToBuy == QMin(remainingShares, QInt(asks[i].size))
         IN  FillWalk(asks, i + 1,
                      QSub(remainingShares, sharesToBuy),
                      QAdd(totalCost, QMul(sharesToBuy, QInt(asks[i].price))),
                      QAdd(filledShares, sharesToBuy),
                      levelsUsed + 1)

\* calculateFillPrice: the VWAP of walking the ask ladder for requestedShares
calculateFillPrice(asks, requestedShares) ==
    IF Len(asks) = 0 \/ QLe(requestedShares, QInt(0))
    THEN [avgPrice |-> QInt(0), totalCost |-> QInt(0),
          filledShares |-> QInt(0), levels |-> 0]
    ELSE LET w == FillWalk(asks, 1, requestedShares, QInt(0), QInt(0), 0)
         IN  [avgPrice |-> IF QLt(QInt(0), w.filledShares)
                           THEN QDiv(w.totalCost, w.filledShares)
                           ELSE QInt(0),
              totalCost |-> w.totalCost,
              filledShares |-> w.filledShares,
              levels |-> w.levels]

RECURSIVE SumSizes(_, _)
SumSizes(asks, i) == IF i > Len(asks) THEN 0 ELSE asks[i].size + SumSizes(asks, i + 1)

getTotalLiquidity(asks) == SumSizes(asks, 1)

calculateSlippage(bestPrice, avgFillPrice) ==
    IF bestPrice = 0 THEN QInt(0)
    ELSE QDiv(QSub(avgFillPrice, QInt(bestPrice)), QInt(bestPrice))

currentBalance == initialBalance

MapGet(map, key, default) == IF key \in DOMAIN map THEN map[key] ELSE default
MapSet(map, key, value) ==
    [k \in DOMAIN map \cup {key} |-> IF k = key THEN value ELSE map[k]]
MapDelete(map, key) == [k \in DOMAIN map \ {key} |-> map[k]]

NoOpportunity == [market |-> "none"]

Skip(reason, dips) ==
    [shouldTrade |-> FALSE, skipReason |-> reason,
     opportunity |-> NoOpportunity, activeDips |-> dips]

\* the max-slippage gate with the limit read as a percentage
slippageTooHighAsPercent(totalSlippage) == QLt(QInt(maxSlippagePct), totalSlippage)

\* the max-slippage gate of detectDip (line 255)
slippageTooHigh(totalSlippage) == QLt(Q(maxSlippagePct, 100), totalSlippage)

\* detectDip, lines 194-221: the ActiveDip of the market is created or
\* updated with the book's best-case cost and its liquidity for 100 USD
trackDip(market, timestamp, bestCaseCost, liquidityUp, liquidityDown) ==
    IF market \notin DOMAIN activeDips
    THEN MapSet(activeDips, market,
            [startTime |-> timestamp,
             startCost |-> bestCaseCost,
             minCost |-> bestCaseCost,
             maxLiquidityUp |-> liquidityUp,
             maxLiquidityDown |-> liquidityDown,
             updates |-> 1])
    ELSE MapSet(activeDips, market,
            [startTime |-> activeDips[market].startTime,
             startCost |-> activeDips[market].startCost,
             minCost |-> IF bestCaseCost < activeDips[market].minCost
                         THEN bestCaseCost ELSE activeDips[market].minCost,
             maxLiquidityUp |-> QMax(activeDips[market].maxLiquidityUp, liquidityUp),
             maxLiquidityDown |-> QMax(activeDips[market].maxLiquidityDown,
                                       liquidityDown),
             updates |-> activeDips[market].updates + 1])

\* detectDip, lines 224-228: the shares that the risk-based position size buys
targetSharesFor(bestAskUp, bestAskDown) ==
    LET riskBasedSize == (currentBalance * riskPerTradePct) \div 100
        positionSize == IF riskBasedSize < maxPositionSize
                        THEN riskBasedSize ELSE maxPositionSize
    IN  QMin(Q(positionSize, bestAskUp.price), Q(positionSize, bestAskDown.price))

\* detectDip, lines 249-351: the slippage and profit gates on the final
\* fills, and the opportunity returned when they pass
detectDipGated(orderbook, dips, finalFillUp, finalFillDown) ==
    LET bestAskUp == orderbook.UP.asks[1]
        bestAskDown == orderbook.DOWN.asks[1]
        slippageUp == calculateSlippage(bestAskUp.price, finalFillUp.avgPrice)
        slippageDown == calculateSlippage(bestAskDown.price, finalFillDown.avgPrice)
        totalSlippage == QDiv(QAdd(slippageUp, slippageDown), QInt(2))
        actualTotalCost == QAdd(finalFillUp.avgPrice, finalFillDown.avgPrice)
        estimatedFees == QMul(actualTotalCost, Q(feeRatePct, 100))
        expectedProfit == QSub(QSub(QInt(100), actualTotalCost), estimatedFees)
        profitPercent == QMul(QDiv(expectedProfit, actualTotalCost), QInt(100))
    IN  IF slippageTooHigh(totalSlippage)
        THEN Skip("Slippage too high", dips)
        ELSE IF QLt(profitPercent, QInt(minProfitAfterSlippage))
        THEN Skip("Profit after slippage+fees too low", dips)
        ELSE IF QLt(expectedProfit, QInt(minProfit))
        THEN Skip("Profit after fees too small", dips)
        ELSE [shouldTrade |-> TRUE, skipReason |-> "",
              opportunity |->
                [market |-> orderbook.market,
                 timestamp |-> orderbook.timestamp,
                 askUp |-> bestAskUp.price,
                 askDown |-> bestAskDown.price,
                 avgFillPriceUp |-> finalFillUp.avgPrice,
                 avgFillPriceDown |-> finalFillDown.avgPrice,
                 totalCost |-> actualTotalCost,
                 bestCaseCost |-> bestAskUp.price + bestAskDown.price,
                 expectedProfit |-> expectedProfit,
                 profitPercent |-> profitPercent,
                 slippageUp |-> slippageUp,
                 slippageDown |-> slippageDown,
                 totalSlippage |-> totalSlippage,
                 liquidityUp |-> getTotalLiquidity(orderbook.UP.asks),
                 liquidityDown |-> getTotalLiquidity(orderbook.DOWN.asks),
                 levelsUsedUp |-> finalFillUp.levels,
                 levelsUsedDown |-> finalFillDown.levels],
              activeDips |-> dips]

\* detectDip, lines 230-247: the fills for the target shares, the liquidity
\* gate, and the final fills for the shares both sides can deliver
detectDipFilled(orderbook, dips, targetShares) ==
    LET fillUp == calculateFillPrice(orderbook.UP.asks, targetShares)
        fillDown == calculateFillPrice(orderbook.DOWN.asks, targetShares)
        minFill == QMul(targetShares, Q(9, 10))
        actualShares == QMin(fillUp.filledShares, fillDown.filledShares)
    IN  IF QLt(fillUp.filledShares, minFill) \/ QLt(fillDown.filledShares, minFill)
        THEN Skip("Insufficient liquidity", dips)
        ELSE detectDipGated(orderbook, dips,
                            calculateFillPrice(orderbook.UP.asks, actualShares),
                            calculateFillPrice(orderbook.DOWN.asks, actualShares))

\* detectDip, after the cooldown, validity and price checks: the ActiveDip
\* bookkeeping and the sizing, slippage and profit gates (lines 153-351)
detectDipPriced(orderbook) ==
    LET bestAskUp == orderbook.UP.asks[1]
        bestAskDown == orderbook.DOWN.asks[1]
        bestCaseCost == bestAskUp.price + bestAskDown.price
        sharesFor100Up == Q(TARGET_TRADE_SIZE, bestAskUp.price)
        sharesFor100Down == Q(TARGET_TRADE_SIZE, bestAskDown.price)
        targetSharesFor100 == QMin(sharesFor100Up, sharesFor100Down)
        fillFor100Up == calculateFillPrice(orderbook.UP.asks, targetSharesFor100)
        fillFor100Down == calculateFillPrice(orderbook.DOWN.asks, targetSharesFor100)
    IN  IF bestCaseCost >= threshold
        THEN Skip("No dip", MapDelete(activeDips, orderbook.market))
        ELSE detectDipFilled(orderbook,
                             trackDip(orderbook.market, orderbook.timestamp,
                                      bestCaseCost, fillFor100Up.filledShares,
                                      fillFor100Down.filledShares),
                             targetSharesFor(bestAskUp, bestAskDown))

\* the cooldown check with the elapsed milliseconds held against the
\* cooldown in seconds
cooldownActiveInSeconds(timestamp, lastTrade) ==
    timestamp - lastTrade < cooldownMs \div 1000

\* detectDip, line 118: the cooldown check
cooldownActive(timestamp, lastTrade) == timestamp - lastTrade < cooldownMs

\* the minimum-price check passing a book in which only one side is too cheap
priceTooLowOnBothSides(bestAskUp, bestAskDown) ==
    bestAskUp.price < MIN_REALISTIC_PRICE /\ bestAskDown.price < MIN_REALISTIC_PRICE

\* detectDip, line 146: the minimum-price check
priceTooLow(bestAskUp, bestAskDown) ==
    bestAskUp.price < MIN_REALISTIC_PRICE \/ bestAskDown.price < MIN_REALISTIC_PRICE

\* detectDip(orderbook): the DetectionResult, with the activeDips map it leaves
detectDip(orderbook) ==
    LET lastTrade == MapGet(lastTradeTime, orderbook.market, 0)
    IN  IF cooldownActive(orderbook.timestamp, lastTrade)
        THEN Skip("Cooldown active", activeDips)
        ELSE IF Len(orderbook.UP.asks) = 0 \/ Len(orderbook.DOWN.asks) = 0
        THEN Skip("Empty orderbook (no asks)", activeDips)
        ELSE IF priceTooLow(orderbook.UP.asks[1], orderbook.DOWN.asks[1])
        THEN Skip("Price too low", activeDips)
        ELSE detectDipPriced(orderbook)

-----------------------------------------------------------------------------
(* market-data.ts: the orderbook store *)

Level(p, s) == [price |-> p, size |-> s]

EmptyMap == [k \in {} |-> 0]

\* market-data.ts handleOrderbookUpdate: one side of the cached book is
\* replaced by the parsed (price-ascending) asks and the book is re-stamped
updateOrderbook(market, isUpSide, asks) ==
    LET orderbook == MapGet(orderbookCache, market,
                            [market |-> market, timestamp |-> now,
                             UP |-> [asks |-> <<>>], DOWN |-> [asks |-> <<>>]])
    IN  [market |-> market, timestamp |-> now,
         UP |-> IF isUpSide THEN [asks |-> asks] ELSE orderbook.UP,
         DOWN |-> IF isUpSide THEN orderbook.DOWN ELSE [asks |-> asks]]

-----------------------------------------------------------------------------
(* market-data.ts: the watched windows and their tokens *)

FUTURE_WINDOWS_TO_MONITOR == 2  \* the current window and two future ones
periodSeconds == 120            \* TIMEFRAME_PERIOD_SECONDS['1h'], in units of 30 s

WindowOffsets == 0 .. FUTURE_WINDOWS_TO_MONITOR

\* the template string `${symbol}_${offset}`
WindowKeys ==
    [BTC |-> <<"BTC_0", "BTC_1", "BTC_2">>, ETH |-> <<"ETH_0", "ETH_1", "ETH_2">>]

mapKeyOf(symbol, offset) == WindowKeys[symbol][offset + 1]

\* the window label: 'now' for offset 0, `+${offset}` otherwise
windowLabelOf(offset) == <<"now", "+1", "+2">>[offset + 1]

getCurrentPeriodTimestamp(time) == (time \div periodSeconds) * periodSeconds

getNextPeriodTimestamp(time) == getCurrentPeriodTimestamp(time) + periodSeconds

\* The exchange's listings: every hourly window of BTC, and the windows of
\* ETH except the one starting at the third period
listed(symbol, periodTimestamp) ==
    ~(symbol = "ETH" /\ periodTimestamp = 2 * periodSeconds)

\* the token id the exchange gives an outcome of a window
tokenIdOf(symbol, periodTimestamp, outcome) == <<symbol, periodTimestamp, outcome>>

\* fetchMarketTokensForPeriod, for a window the exchange lists
fetchMarketTokensForPeriod(symbol, periodTimestamp, windowOffset, windowLabel) ==
    [symbol |-> symbol,
     conditionId |-> <<symbol, periodTimestamp>>,
     tokenIdUp |-> tokenIdOf(symbol, periodTimestamp, "UP"),
     tokenIdDown |-> tokenIdOf(symbol, periodTimestamp, "DOWN"),
     windowOffset |-> windowOffset,
     windowLabel |-> windowLabel,
     periodTimestamp |-> periodTimestamp]

\* initMarketData: one record per market and offset whose window is listed,
\* under the key `${symbol}_${offset}`
initMarketData(time) ==
    LET currentTs == getCurrentPeriodTimestamp(time)
        loaded == {<<s, o>> \in Markets \X WindowOffsets :
                      listed(s, currentTs + o * periodSeconds)}
    IN  [k \in {mapKeyOf(w[1], w[2]) : w \in loaded} |->
            LET w == CHOOSE w \in loaded : mapKeyOf(w[1], w[2]) = k
            IN  fetchMarketTokensForPeriod(w[1], currentTs + w[2] * periodSeconds,
                                           w[2], windowLabelOf(w[2]))]

\* The iteration order of the marketTokens Map is its insertion order: the
\* window keys that initMarketData inserts come before the symbol keys that
\* a rotation inserts
KeyOrder ==
    <<"BTC_0", "BTC_1", "BTC_2", "ETH_0", "ETH_1", "ETH_2", "BTC", "ETH">>

KeyRank(key) == CHOOSE i \in 1 .. Len(KeyOrder) : KeyOrder[i] = key

\* rebuildTokenLookup: every token id of every record, a later record of the
\* iteration overwriting an earlier one with the same token id
rebuildTokenLookup(tokens) ==
    LET holders(id) == {k \in DOMAIN tokens :
                           id \in {tokens[k].tokenIdUp, tokens[k].tokenIdDown}}
        lastHolder(id) == CHOOSE k \in holders(id) :
                              \A j \in holders(id) : KeyRank(j) <= KeyRank(k)
        ids == UNION {{tokens[k].tokenIdUp, tokens[k].tokenIdDown} : k \in DOMAIN tokens}
    IN  [id \in ids |->
            [symbol |-> tokens[lastHolder(id)].symbol,
             isUpSide |-> tokens[lastHolder(id)].tokenIdUp = id,
             mapKey |-> lastHolder(id),
             windowOffset |-> tokens[lastHolder(id)].windowOffset,
             windowLabel |-> tokens[lastHolder(id)].windowLabel]]

SocketIds == 1 .. MaxSockets

\* a WebSocket object not yet created
UnusedSocket == [state |-> "unused", tokens |-> {}, subscribed |-> {}]

\* connectWebSocket, lines 869-872: the token ids of every record
TokenIdsOf(tokens) ==
    UNION {{tokens[k].tokenIdUp, tokens[k].tokenIdDown} : k \in DOMAIN tokens}

\* config.markets, in its order
MarketOrder == <<"BTC", "ETH">>

NoRotation ==
    [pc |-> "idle", queue |-> <<>>, prefetch |-> <<>>, prefetchTimestamp |-> 0,
     completed |-> 0]

\* getMsUntilNextWindow was not called yet
NoTiming == [timeframe |-> "none", at |-> 0, msUntilWindow |-> 0]

\* index.ts start, lines 97-105: the tokens are loaded, the lookup is built,
\* handleOrderbookUpdate is the one registered callback, the connection is
\* open and subscribed and the rotation timers are set
StreamStarted ==
    /\ marketTokens = initMarketData(StartTime)
    /\ tokenIdLookup = rebuildTokenLookup(initMarketData(StartTime))
    /\ nextWindowTokens = EmptyMap
    /\ rotation = NoRotation
    /\ sockets = [id \in SocketIds |->
                    IF id = 1
                    THEN [state |-> "open",
                          tokens |-> TokenIdsOf(initMarketData(StartTime)),
                          subscribed |-> TokenIdsOf(initMarketData(StartTime))]
                    ELSE UnusedSocket]
    /\ wsConnection = 1
    /\ timers = [reconnect |-> FALSE, rotation |-> TRUE, prefetch |-> TRUE]
    /\ exited = FALSE
    /\ orderbookCallbacks = <<"handleOrderbookUpdate">>
    /\ invoked = <<>>
    /\ updateCount = 0
    /\ events = <<>>
    /\ windowTiming = NoTiming

\* no getPresignedOrder call was made yet
NoLookup == [key |-> <<>>, age |-> -1, hit |-> FALSE]

\* order-presigner.ts lines 32-43 and initPresigner: the cache and the set of
\* hot markets are empty and the counters are at zero
PresignerStarted ==
    /\ orderCache = EmptyMap
    /\ hotMarkets = {}
    /\ signing = {}
    /\ cacheHits = 0
    /\ cacheMisses = 0
    /\ lastLookup = NoLookup
    /\ elapsed = 0

-----------------------------------------------------------------------------
(* The detector alone: detectDip applied after every orderbook update *)

\* Ask ladders of the UP token, ascending in price: with AsksDown they lead
\* detectDip through each of its exits, at either threshold value
AsksUp ==
    { <<Level(2, 1000)>>,
      <<Level(50, 1000)>>,
      <<Level(45, 1000)>>,
      <<Level(45, 50), Level(46, 1000)>>,
      <<Level(40, 50), Level(44, 1000)>>,
      <<Level(45, 60)>>,
      <<Level(49, 1000)>>,
      <<Level(49, 50), Level(52, 1000)>>,
      <<Level(50, 50), Level(54, 1000)>> }

AsksDown == { <<Level(47, 1000)>>, <<Level(49, 1000)>>, <<Level(44, 1000)>> }

ThresholdValues == {DIP_THRESHOLD, 99}

NoDetection == Skip("none", <<>>)

Handlers == 1 .. MaxHandlers

NoLeg == [success |-> FALSE, filledSize |-> QInt(0), settled |-> FALSE]

NoResult == [success |-> FALSE, position |-> [id |-> 0]]

IdleHandler ==
    [pc |-> "idle", market |-> "none", opportunity |-> NoOpportunity,
     size |-> QInt(0), admitted |-> FALSE, legUp |-> NoLeg, legDown |-> NoLeg,
     orders |-> <<>>, rollback |-> "none", result |-> NoResult,
     positionCreated |-> FALSE, notified |-> "none", book |-> "none"]

CheckSlots == {"startup", "timer"}

IdleCheck ==
    [pc |-> "idle", queue |-> <<>>, queried |-> 0, last |-> "none",
     data |-> "none"]

TrackerIdle ==
    /\ nextCheckTimeout = FALSE
    /\ checks = [c \in CheckSlots |-> IdleCheck]
    /\ closedMarkets = {}
    /\ serverOffset = 0

InitDetect ==
    /\ now = StartTime
    /\ orderbookCache = EmptyMap
    /\ activeDips = EmptyMap
    /\ lastTradeTime = EmptyMap
    /\ pendingTrades = {}
    /\ detection = NoDetection
    /\ threshold = DIP_THRESHOLD
    /\ isRunning = TRUE
    /\ maxOpenPositions = MAX_OPEN_POSITIONS
    /\ handlers = [h \in Handlers |-> IdleHandler]
    /\ openPositions = EmptyMap
    /\ dbPositions = EmptyMap
    /\ transitions = EmptyMap
    /\ TrackerIdle
    /\ StreamStarted
    /\ PresignerStarted

Tick ==
    /\ now < MaxTime
    /\ now' = now + 1
    /\ UNCHANGED <<orderbookCache, threshold, detectorVars, handlerVars,
                   positionVars, trackerVars, ingestVars, presignVars, windowTiming>>

\* runtime-config.ts setThreshold (the operator's /threshold command)
SetThreshold(value) ==
    /\ value # threshold
    /\ threshold' = value
    /\ UNCHANGED <<now, orderbookCache, detectorVars, handlerVars,
                   positionVars, trackerVars, ingestVars, presignVars, windowTiming>>

UpdatesBounded(market) ==
    market \in DOMAIN activeDips => activeDips[market].updates < MaxUpdates

\* an orderbook update followed by the detectDip call on the updated book
DetectOnUpdate(market, isUpSide, asks) ==
    LET orderbook == updateOrderbook(market, isUpSide, asks)
        result == detectDip(orderbook)
    IN  /\ UpdatesBounded(market)
        /\ orderbookCache' = MapSet(orderbookCache, market, orderbook)
        /\ detection' = [result EXCEPT !.activeDips = <<>>]
        /\ activeDips' = result.activeDips
        /\ UNCHANGED <<now, threshold, lastTradeTime, pendingTrades,
                       handlerVars, positionVars, trackerVars,
                       ingestVars, presignVars, windowTiming>>

\* dip-detector.ts markTradeExecuted
markTradeExecuted(market) == MapSet(lastTradeTime, market, now)

TradeExecuted(market) ==
    /\ detection.shouldTrade
    /\ detection.opportunity.market = market
    /\ lastTradeTime' = markTradeExecuted(market)
    /\ UNCHANGED <<now, orderbookCache, threshold, activeDips, pendingTrades,
                   detection, handlerVars, positionVars, trackerVars,
                   ingestVars, presignVars, windowTiming>>

NextDetect ==
    \/ Tick
    \/ \E v \in ThresholdValues : SetThreshold(v)
    \/ \E a \in AsksUp : DetectOnUpdate("BTC", TRUE, a)
    \/ \E a \in AsksDown : DetectOnUpdate("BTC", FALSE, a)
    \/ TradeExecuted("BTC")

SpecDetect == InitDetect /\ [][NextDetect]_vars

\* C10: whenever detectDip returns a trade, the opportunity's profitPercent is
\* at least minProfitAfterSlippage (in percent), its expectedProfit is at
\* least minProfit and its totalSlippage is at most maxSlippagePct.
AdmissionProfitFloor ==
    detection.shouldTrade =>
        /\ QLe(QInt(minProfitAfterSlippage), detection.opportunity.profitPercent)
        /\ QLe(QInt(minProfit), detection.opportunity.expectedProfit)
        /\ QLe(detection.opportunity.totalSlippage, Q(maxSlippagePct, 100))

\* a trade is returned for a book whose fill walks past the best ask level
TradeWithSlippage ==
    /\ detection.shouldTrade
    /\ QLt(QInt(0), detection.opportunity.totalSlippage)
    /\ detection.opportunity.levelsUsedUp > 1

\* the book detectDip was last called on
DetectedBook == orderbookCache["BTC"]

\* C11: detectDip never returns a trade for a book in which a side has no ask
\* or a best ask is below MIN_REALISTIC_PRICE, whatever the best asks sum to.
NoTradeOnInvalidBook ==
    detection.shouldTrade =>
        /\ Len(DetectedBook.UP.asks) > 0
        /\ Len(DetectedBook.DOWN.asks) > 0
        /\ DetectedBook.UP.asks[1].price >= MIN_REALISTIC_PRICE
        /\ DetectedBook.DOWN.asks[1].price >= MIN_REALISTIC_PRICE

\* a book whose best asks sum to less than the threshold was skipped because
\* one best ask is below MIN_REALISTIC_PRICE
CheapSideSkipped ==
    /\ detection.skipReason = "Price too low"
    /\ DetectedBook.UP.asks[1].price + DetectedBook.DOWN.asks[1].price < threshold

\* detectDip has been called in this step and has returned a trade
ReturnsTrade ==
    /\ detection'.shouldTrade
    /\ detection' # detection \/ orderbookCache' # orderbookCache

\* C13: after markTradeExecuted for a market at time t, no detectDip call on
\* a book of that market stamped earlier than t + cooldownMs returns a trade.
NoTradeDuringCooldown ==
    [][ReturnsTrade =>
          \/ "BTC" \notin DOMAIN lastTradeTime
          \/ DetectedBook'.timestamp >= lastTradeTime["BTC"] + cooldownMs]_vars

\* a book below the threshold is skipped because the market's last trade is
\* less than cooldownMs old
DipSkippedInCooldown ==
    /\ detection.skipReason = "Cooldown active"
    /\ Len(DetectedBook.UP.asks) > 0 /\ Len(DetectedBook.DOWN.asks) > 0
    /\ DetectedBook.UP.asks[1].price >= MIN_REALISTIC_PRICE
    /\ DetectedBook.UP.asks[1].price + DetectedBook.DOWN.asks[1].price < threshold
    /\ DetectedBook.timestamp < lastTradeTime["BTC"] + cooldownMs

-----------------------------------------------------------------------------
(* liquidity-analyzer.ts and the FAK position sizing of dip-detector.ts *)

analyzeSideLiquidity(asks, targetSize) ==
    IF Len(asks) = 0
    THEN [availableSize |-> QInt(0), vwap |-> QInt(0), slippage |-> QInt(1),
          levels |-> 0, fillable |-> FALSE]
    ELSE LET w == FillWalk(asks, 1, targetSize, QInt(0), QInt(0), 0)
             vwap == IF QLt(QInt(0), w.filledShares)
                     THEN QDiv(w.totalCost, w.filledShares) ELSE QInt(0)
         IN  [availableSize |-> w.filledShares,
              vwap |-> vwap,
              slippage |-> calculateSlippage(asks[1].price, vwap),
              levels |-> w.levels,
              fillable |-> QLe(targetSize, w.filledShares)]

\* analyzeArbitrageLiquidity, lines 77-99: the combined figures of two sides
combinedLiquidity(asksUp, asksDown, up, down) ==
    LET bestAskUp == IF Len(asksUp) = 0 THEN 0 ELSE asksUp[1].price
        bestAskDown == IF Len(asksDown) = 0 THEN 0 ELSE asksDown[1].price
        idealCost == bestAskUp + bestAskDown
        actualCost == QAdd(up.vwap, down.vwap)
    IN  [up |-> up, down |-> down,
         combinedSlippage |-> IF idealCost > 0
                              THEN QDiv(QSub(actualCost, QInt(idealCost)),
                                        QInt(idealCost))
                              ELSE QInt(0),
         adjustedProfit |-> QSub(QInt(100), actualCost)]

analyzeArbitrageLiquidity(asksUp, asksDown, targetSize) ==
    combinedLiquidity(asksUp, asksDown,
                      analyzeSideLiquidity(asksUp, targetSize),
                      analyzeSideLiquidity(asksDown, targetSize))

\* calculatePositionSizeWithLiquidity, lines 440-482: the trade size from the
\* liquidity analysis and the mid price
sizeFromLiquidity(opportunity, analysis, midPrice) ==
    LET fillableShares == QMin(analysis.up.availableSize,
                               analysis.down.availableSize)
        fillableUSDC == QMul(fillableShares, midPrice)
        viable == ~QLt(fillableUSDC, QInt(MIN_TRADE_USDC))
        tradeShares == IF ~viable THEN QInt(0)
                       ELSE IF QLt(QInt(MAX_TRADE_USDC), fillableUSDC)
                       THEN QDiv(QInt(MAX_TRADE_USDC), midPrice)
                       ELSE fillableShares
    IN  [sizeUp |-> tradeShares, sizeDown |-> tradeShares,
         totalCost |-> QAdd(QMul(tradeShares, opportunity.avgFillPriceUp),
                            QMul(tradeShares, opportunity.avgFillPriceDown)),
         estimatedSlippage |-> analysis.combinedSlippage,
         viable |-> viable]

calculatePositionSizeWithLiquidity(opportunity, orderbook) ==
    LET maxSharesUp == Q(MAX_TRADE_USDC, opportunity.askUp)
        maxSharesDown == Q(MAX_TRADE_USDC, opportunity.askDown)
        maxShares == QMin(maxSharesUp, maxSharesDown)
    IN  sizeFromLiquidity(opportunity,
                          analyzeArbitrageLiquidity(orderbook.UP.asks,
                                                    orderbook.DOWN.asks, maxShares),
                          Q(opportunity.askUp + opportunity.askDown, 2))

-----------------------------------------------------------------------------
(* position-manager.ts *)

canOpenPosition == Cardinality(DOMAIN openPositions) < maxOpenPositions

hasOpenPositionForMarket(market) ==
    \E id \in DOMAIN openPositions : openPositions[id].market = market

\* the Position that createPosition builds from the executor's result
createPosition(opportunity, tradeResult) ==
    [id |-> tradeResult.id, market |-> opportunity.market,
     openedAt |-> tradeResult.openedAt, status |-> "open",
     sizeUp |-> tradeResult.sizeUp, sizeDown |-> tradeResult.sizeDown,
     totalCost |-> tradeResult.totalCost, fees |-> tradeResult.fees,
     resolvedAt |-> 0, outcome |-> "none", payout |-> QInt(0),
     actualProfit |-> QInt(0)]

-----------------------------------------------------------------------------
(* executor.ts: the dual-leg execution *)

\* market-data.ts getMarketTokens: the record under the key itself, otherwise
\* the record of the symbol's current window, `${symbol}_0`
getMarketTokens(symbolOrKey) ==
    IF symbolOrKey \in DOMAIN marketTokens
    THEN marketTokens[symbolOrKey]
    ELSE marketTokens[mapKeyOf(symbolOrKey, 0)]

\* runtime-config.ts getMaxTotalCost, 0.94 in cents
getMaxTotalCost == 94

Order(tokenId, side, amount, orderType, limitPrice) ==
    [tokenId |-> tokenId, side |-> side, amount |-> amount,
     orderType |-> orderType, limitPrice |-> limitPrice]

\* What the exchange answers to a posted order: an error message, an HTTP
\* status of 400 or more, an exception, or an acceptance that may report the
\* filled amount as a percentage of the amount asked
Response(kind, reported, fillPct) ==
    [kind |-> kind, reported |-> reported, fillPct |-> fillPct]

Rejections ==
    { Response("errorMsg", FALSE, 0), Response("httpError", FALSE, 0),
      Response("throws", FALSE, 0) }

Responses ==
    Rejections \cup { Response("ok", FALSE, 0), Response("ok", TRUE, 0),
                      Response("ok", TRUE, 50) }

\* executeOrder: the TradeResult for the exchange's response
executeOrder(amount, response) ==
    IF response.kind = "ok"
    THEN [success |-> TRUE,
          filledSize |-> IF response.reported
                         THEN QMul(amount, Q(response.fillPct, 100))
                         ELSE amount,
          settled |-> TRUE]
    ELSE [success |-> FALSE, filledSize |-> QInt(0), settled |-> TRUE]

\* JavaScript truthiness of a number
Truthy(q) == q.n # 0

\* the size of the compensating order (executor.ts lines 203, 205), taken
\* from the size asked instead of the size filled
rollbackSizeRequested(leg, requested) == requested

\* the size of the compensating order (executor.ts lines 203, 205)
rollbackSize(leg, requested) == leg.filledSize

\* which leg executeDipTrade rolls back once both legs are settled
rollbackSide(legUp, legDown) ==
    IF legUp.success /\ ~legDown.success /\ Truthy(legUp.filledSize) THEN "UP"
    ELSE IF legDown.success /\ ~legUp.success /\ Truthy(legDown.filledSize)
    THEN "DOWN"
    ELSE "none"

\* rollbackPosition: a SELL FAK without limit price for the filled side
rollbackOrder(h, side) ==
    LET tokens == getMarketTokens(h.market)
    IN  IF side = "UP"
        THEN Order(tokens.tokenIdUp, "SELL", rollbackSize(h.legUp, h.size), "FAK", 0)
        ELSE Order(tokens.tokenIdDown, "SELL", rollbackSize(h.legDown, h.size), "FAK", 0)

\* the two BUY FAK legs of executeDipTrade, with limit prices
buyOrders(opportunity, size) ==
    LET tokens == getMarketTokens(opportunity.market)
    IN  << Order(tokens.tokenIdUp, "BUY", size, "FAK",
                 opportunity.askUp + LIMIT_BUFFER),
           Order(tokens.tokenIdDown, "BUY", size, "FAK",
                 opportunity.askDown + LIMIT_BUFFER) >>

\* generatePositionId: an id no stored position has
generatePositionId == Cardinality(DOMAIN dbPositions) + 1

\* the value executeDipTrade returns once its legs (and rollback) are done
executeDipTradeResult(id, h) ==
    IF Len(h.orders) = 0 \/ ~h.legUp.success \/ ~h.legDown.success
    THEN NoResult
    ELSE LET totalCost == QAdd(QMul(QInt(h.opportunity.askUp), h.legUp.filledSize),
                               QMul(QInt(h.opportunity.askDown), h.legDown.filledSize))
         IN  [success |-> TRUE,
              position |-> [id |-> id, openedAt |-> now,
                            sizeUp |-> h.legUp.filledSize,
                            sizeDown |-> h.legDown.filledSize,
                            totalCost |-> totalCost,
                            fees |-> QMul(totalCost, Q(feeRatePct, 100))]]

-----------------------------------------------------------------------------
(* index.ts: handleOrderbookUpdate, one action per stretch between awaits *)

\* dip-detector.ts markTradePending
markTradePending(market) == pendingTrades \cup {market}

\* dip-detector.ts clearTradePending
clearTradePending(market) == pendingTrades \ {market}

InFlight == {"executing", "rollback"}

IdleSlots == {h \in Handlers : handlers[h].pc = "idle"}

\* the cooldown stamp written whatever the outcome of the execution
lastTradeTimeAfterAnyOutcome(result, market) == markTradeExecuted(market)

\* the cooldown stamp after executeDipTrade returned (index.ts lines 325-350)
lastTradeTimeAfter(result, market) ==
    IF result.success THEN markTradeExecuted(market) ELSE lastTradeTime

\* The orderbook update of market-data.ts and the callback it invokes, up to
\* the handler's first await (notifyDipDetected)
HandleOrderbookUpdate(market, isUpSide, asks) ==
    LET orderbook == updateOrderbook(market, isUpSide, asks)
        result == detectDip(orderbook)
        returnsEarly == \/ ~isRunning
                        \/ ~canOpenPosition
                        \/ hasOpenPositionForMarket(market)
    IN  /\ UpdatesBounded(market)
        /\ orderbookCache' = MapSet(orderbookCache, market, orderbook)
        /\ IF returnsEarly
           THEN UNCHANGED <<activeDips, handlers>>
           ELSE /\ activeDips' = result.activeDips
                /\ IF result.shouldTrade
                   THEN \E h \in IdleSlots :
                          /\ \A g \in IdleSlots : h <= g
                          /\ handlers' = [handlers EXCEPT ![h] =
                                [IdleHandler EXCEPT
                                    !.pc = "notifyDip",
                                    !.market = market,
                                    !.book = market,
                                    !.opportunity = result.opportunity]]
                   ELSE UNCHANGED handlers
        /\ UNCHANGED <<now, threshold, lastTradeTime, pendingTrades, detection,
                       isRunning, maxOpenPositions, positionVars, trackerVars,
                       ingestVars, presignVars, windowTiming>>

\* After notifyDipDetected: sizing on the handler's orderbook object (the
\* cache entry, as updated meanwhile), then markTradePending and the start of
\* executeDipTrade, whose two BUY legs are posted before it first suspends
SizeAndAdmit(h) ==
    LET self == handlers[h]
        orderbook == orderbookCache[self.book]
        sizing == calculatePositionSizeWithLiquidity(self.opportunity, orderbook)
        rejected == QLt(QInt(getMaxTotalCost), self.opportunity.totalCost)
    IN  /\ self.pc = "notifyDip"
        /\ IF ~sizing.viable
           THEN /\ handlers' = [handlers EXCEPT ![h] =
                       [self EXCEPT !.pc = "done", !.notified = "failed"]]
                /\ UNCHANGED pendingTrades
           ELSE /\ pendingTrades' = markTradePending(self.market)
                /\ handlers' = [handlers EXCEPT ![h] =
                       [self EXCEPT
                           !.pc = "executing",
                           !.admitted = TRUE,
                           !.size = sizing.sizeUp,
                           !.orders = IF rejected THEN <<>>
                                      ELSE buyOrders(self.opportunity, sizing.sizeUp)]]
        /\ UNCHANGED <<now, orderbookCache, threshold, activeDips, lastTradeTime,
                       detection, isRunning, maxOpenPositions, positionVars,
                       trackerVars, ingestVars, presignVars, windowTiming>>

\* a createPosition that puts the position in the cache before it is saved
cachedBeforeSave(position, saveOk) == MapSet(openPositions, position.id, position)

\* position-manager.ts createPosition, lines 71-73: savePosition comes first,
\* and when it throws the cache is not reached
cachedAfterSave(position, saveOk) ==
    IF saveOk THEN MapSet(openPositions, position.id, position)
    ELSE openPositions

\* After executeDipTrade returned result to the handler whose record is self:
\* lines 325-364, with savePosition and logEvent succeeding or throwing
HandleResult(h, self, result, saveOk, logOk) ==
    IF result.success
    THEN IF ~saveOk
         THEN /\ handlers' = [handlers EXCEPT ![h] =
                     [self EXCEPT !.pc = "done", !.result = result,
                                  !.notified = "error"]]
              /\ openPositions' =
                    cachedAfterSave(createPosition(self.opportunity,
                                                   result.position), saveOk)
              /\ UNCHANGED <<lastTradeTime, pendingTrades, dbPositions,
                             transitions>>
         ELSE LET position == createPosition(self.opportunity, result.position)
              IN  /\ dbPositions' = MapSet(dbPositions, position.id, position)
                  /\ openPositions' = cachedAfterSave(position, saveOk)
                  /\ lastTradeTime' = lastTradeTimeAfter(result, self.market)
                  /\ handlers' = [handlers EXCEPT ![h] =
                         [self EXCEPT !.pc = "done", !.result = result,
                                      !.positionCreated = TRUE,
                                      !.notified = IF logOk THEN "executed"
                                                   ELSE "error"]]
                  /\ UNCHANGED <<pendingTrades, transitions>>
    ELSE /\ pendingTrades' = clearTradePending(self.market)
         /\ lastTradeTime' = lastTradeTimeAfter(result, self.market)
         /\ handlers' = [handlers EXCEPT ![h] =
                [self EXCEPT !.pc = "done", !.result = result,
                             !.notified = IF logOk THEN "failed" ELSE "error"]]
         /\ UNCHANGED positionVars

\* The whole of executeDipTrade in one step: both legs answered, the rollback
\* (if any) posted and answered, and the handler resumed with the result
ExecuteDipTrade(h, responseUp, responseDown, responseRollback, saveOk, logOk) ==
    LET self == handlers[h]
        legs == [self EXCEPT !.legUp = executeOrder(self.size, responseUp),
                             !.legDown = executeOrder(self.size, responseDown)]
        side == rollbackSide(legs.legUp, legs.legDown)
        order == rollbackOrder(legs, side)
        done == IF Len(self.orders) = 0 THEN self
                ELSE IF side = "none" THEN legs
                ELSE [legs EXCEPT
                        !.orders = Append(legs.orders, order),
                        !.rollback =
                            IF executeOrder(order.amount, responseRollback).success
                            THEN "ok" ELSE "failed"]
    IN  /\ self.pc = "executing"
        /\ HandleResult(h, done, executeDipTradeResult(generatePositionId, done),
                        saveOk, logOk)
        /\ UNCHANGED <<now, orderbookCache, threshold, activeDips, detection,
                       isRunning, maxOpenPositions, trackerVars,
                       ingestVars, presignVars, windowTiming>>

\* The handler's last await (notifyTradeExecuted, notifyTradeFailed or
\* notifyError) returns and the invocation ends
Finish(h) ==
    /\ handlers[h].pc = "done"
    /\ handlers' = [handlers EXCEPT ![h] = IdleHandler]
    /\ UNCHANGED <<now, orderbookCache, threshold, detectorVars, isRunning,
                   maxOpenPositions, positionVars, trackerVars,
                   ingestVars, presignVars, windowTiming>>

PipelineAsksUp == { <<Level(45, 1000)>>, <<Level(45, 100)>> }

PipelineAsksDown == { <<Level(47, 1000)>> }

PipelineResponses == { Response("errorMsg", FALSE, 0), Response("ok", FALSE, 0) }

MaxOpenPositionsValues == {1, 2}

Init ==
    /\ now = StartTime
    /\ orderbookCache = EmptyMap
    /\ activeDips = EmptyMap
    /\ lastTradeTime = EmptyMap
    /\ pendingTrades = {}
    /\ detection = NoDetection
    /\ threshold = DIP_THRESHOLD
    /\ isRunning = TRUE
    /\ maxOpenPositions \in MaxOpenPositionsValues
    /\ handlers = [h \in Handlers |-> IdleHandler]
    /\ openPositions = EmptyMap
    /\ dbPositions = EmptyMap
    /\ transitions = EmptyMap
    /\ TrackerIdle
    /\ StreamStarted
    /\ PresignerStarted

Next ==
    \/ \E m \in Markets, a \in PipelineAsksUp : HandleOrderbookUpdate(m, TRUE, a)
    \/ \E m \in Markets, a \in PipelineAsksDown : HandleOrderbookUpdate(m, FALSE, a)
    \/ \E h \in Handlers : SizeAndAdmit(h)
    \/ \E h \in Handlers, up \in PipelineResponses, down \in PipelineResponses,
          rb \in PipelineResponses, saveOk \in BOOLEAN, logOk \in BOOLEAN :
            ExecuteDipTrade(h, up, down, rb, saveOk, logOk)

Spec == Init /\ [][Next]_vars

-----------------------------------------------------------------------------
(* One execution at a time, with executeDipTrade followed await by await *)

\* the exchange answers one of the two BUY legs posted by Promise.all
LegResponse(h, isUp, response) ==
    LET self == handlers[h]
        leg == executeOrder(self.size, response)
    IN  /\ self.pc = "executing"
        /\ Len(self.orders) > 0
        /\ ~(IF isUp THEN self.legUp.settled ELSE self.legDown.settled)
        /\ handlers' = [handlers EXCEPT ![h] =
               IF isUp THEN [self EXCEPT !.legUp = leg]
               ELSE [self EXCEPT !.legDown = leg]]
        /\ UNCHANGED <<now, orderbookCache, threshold, detectorVars, isRunning,
                       maxOpenPositions, positionVars, trackerVars,
                       ingestVars, presignVars, windowTiming>>

\* Promise.all has resolved (or the cost check rejected the trade): either
\* the rollback order is posted, or executeDipTrade returns to the handler
Settle(h, saveOk, logOk) ==
    LET self == handlers[h]
        side == rollbackSide(self.legUp, self.legDown)
    IN  /\ self.pc = "executing"
        /\ Len(self.orders) > 0 => self.legUp.settled /\ self.legDown.settled
        /\ IF Len(self.orders) > 0 /\ side # "none"
           THEN /\ handlers' = [handlers EXCEPT ![h] =
                       [self EXCEPT !.pc = "rollback",
                                    !.orders = Append(self.orders,
                                                      rollbackOrder(self, side))]]
                /\ UNCHANGED <<lastTradeTime, pendingTrades, positionVars>>
           ELSE HandleResult(h, self,
                             executeDipTradeResult(generatePositionId, self),
                             saveOk, logOk)
        /\ UNCHANGED <<now, orderbookCache, threshold, activeDips, detection,
                       isRunning, maxOpenPositions, trackerVars,
                       ingestVars, presignVars, windowTiming>>

\* the exchange answers the rollback order; executeDipTrade returns failure
RollbackResponse(h, response, logOk) ==
    LET self == handlers[h]
        order == self.orders[Len(self.orders)]
        rolled == [self EXCEPT !.rollback =
                      IF executeOrder(order.amount, response).success
                      THEN "ok" ELSE "failed"]
    IN  /\ self.pc = "rollback"
        /\ HandleResult(h, rolled, executeDipTradeResult(generatePositionId, rolled),
                        TRUE, logOk)
        /\ UNCHANGED <<now, orderbookCache, threshold, activeDips, detection,
                       isRunning, maxOpenPositions, trackerVars,
                       ingestVars, presignVars, windowTiming>>

AllIdle == \A h \in Handlers : handlers[h].pc = "idle"

\* besides the pipeline's books: one that the cost check of executeDipTrade
\* rejects, and one at which the dip is over (50 + 47 is above the threshold)
ExecAsksUp ==
    PipelineAsksUp \cup { <<Level(46, 50), Level(48, 1000)>>, <<Level(50, 1000)>> }

NextExec ==
    \/ Tick
    \/ \E a \in ExecAsksUp : AllIdle /\ HandleOrderbookUpdate("BTC", TRUE, a)
    \/ \E a \in PipelineAsksDown : AllIdle /\ HandleOrderbookUpdate("BTC", FALSE, a)
    \/ \E h \in Handlers : SizeAndAdmit(h)
    \/ \E h \in Handlers, isUp \in BOOLEAN, r \in Responses : LegResponse(h, isUp, r)
    \/ \E h \in Handlers, saveOk \in BOOLEAN, logOk \in BOOLEAN : Settle(h, saveOk, logOk)
    \/ \E h \in Handlers, r \in Responses, logOk \in BOOLEAN : RollbackResponse(h, r, logOk)
    \/ \E h \in Handlers : Finish(h)

SpecExec == InitDetect /\ [][NextExec]_vars

-----------------------------------------------------------------------------
(* Properties of the admission pipeline *)

Executions(market) ==
    {h \in Handlers : handlers[h].market = market /\ handlers[h].pc \in InFlight}

\* C1: under any interleaving of the orderbook callbacks, at most one trade
\* execution (from markTradePending until executeDipTrade's result is
\* handled) is in flight for a market at any time.
AtMostOneExecutionPerMarket ==
    \A m \in Markets : Cardinality(Executions(m)) <= 1

\* C2: a market is pending only while an execution for it is in flight: once
\* the outcome is handled (success, failure or exception) it is pending no more.
PendingClearedOnOutcome ==
    \A m \in pendingTrades : Executions(m) # {}

Admitted(h) == handlers[h].pc = "done" /\ handlers[h].admitted

\* C3: every admitted opportunity ends with exactly one of an Open position
\* created and a trade-failure notification sent.
PositionOrFailureNotice ==
    \A h \in Handlers :
        Admitted(h) =>
            (handlers[h].positionCreated # (handlers[h].notified = "failed"))

OpenMarkets == {openPositions[id].market : id \in DOMAIN openPositions}

\* C7: the number of Open positions, counted over distinct markets, never
\* exceeds maxOpenPositions, which no action of this specification changes.
OpenPositionsWithinLimit ==
    Cardinality(OpenMarkets) <= maxOpenPositions

\* detectDip has returned a trade to invocation h in this step
DetectsTrade(h) == handlers[h].pc = "idle" /\ handlers'[h].pc = "notifyDip"

\* C12: while a market is pending, no detectDip call for it returns a trade.
NoTradeWhilePending ==
    [][\A h \in Handlers :
          DetectsTrade(h) => handlers'[h].market \notin pendingTrades]_vars

\* an orderbook update for market m has been handled in this step
UpdateHandled(m) ==
    /\ m \in DOMAIN orderbookCache'
    /\ m \notin DOMAIN orderbookCache \/ orderbookCache'[m] # orderbookCache[m]

\* both sides of the book have asks and the best asks sum to the threshold
\* or more
AtOrAboveThreshold(orderbook) ==
    /\ Len(orderbook.UP.asks) > 0
    /\ Len(orderbook.DOWN.asks) > 0
    /\ orderbook.UP.asks[1].price + orderbook.DOWN.asks[1].price >= threshold

\* C14: once an orderbook update whose best asks sum to the threshold or more
\* has been handled, the market has no ActiveDip.
NoActiveDipAboveThreshold ==
    [][\A m \in Markets :
          (UpdateHandled(m) /\ AtOrAboveThreshold(orderbookCache'[m]))
              => m \notin DOMAIN activeDips']_vars

-----------------------------------------------------------------------------
(* Properties of the dual-leg execution *)

Sells(h) == SelectSeq(handlers[h].orders, LAMBDA o : o.side = "SELL")

OneLegOnly(h) ==
    /\ handlers[h].pc = "done"
    /\ handlers[h].legUp.settled /\ handlers[h].legDown.settled
    /\ handlers[h].legUp.success # handlers[h].legDown.success

FilledLeg(h) ==
    IF handlers[h].legUp.success THEN handlers[h].legUp ELSE handlers[h].legDown

FilledToken(h) ==
    IF handlers[h].legUp.success
    THEN getMarketTokens(handlers[h].market).tokenIdUp
    ELSE getMarketTokens(handlers[h].market).tokenIdDown

CompensatedOnce(h) ==
    /\ Len(Sells(h)) = 1
    /\ Sells(h)[1].orderType = "FAK"
    /\ Sells(h)[1].tokenId = FilledToken(h)
    /\ Sells(h)[1].amount = FilledLeg(h).filledSize

ReturnedFailure(h) ==
    /\ ~handlers[h].result.success
    /\ handlers[h].result.position.id = 0
    /\ ~handlers[h].positionCreated

\* C4, as stated: when exactly one BUY leg succeeds, exactly one SELL FAK is
\* submitted for the filled leg's token and filled size, and executeDipTrade
\* returns failure with no position.
RollbackOnOneLeg ==
    \A h \in Handlers :
        OneLegOnly(h) => CompensatedOnce(h) /\ ReturnedFailure(h)

\* C4, amended: when exactly one BUY leg succeeds, executeDipTrade returns
\* failure with no position; exactly one SELL FAK for the filled leg's token
\* and filled size is submitted if that filled size is not zero, and no SELL
\* at all if it is zero.
RollbackOnOneLegFilled ==
    \A h \in Handlers :
        OneLegOnly(h) =>
            /\ ReturnedFailure(h)
            /\ IF Truthy(FilledLeg(h).filledSize)
               THEN CompensatedOnce(h)
               ELSE Len(Sells(h)) = 0

\* one leg filled half of its size, the other was rejected, and the SELL went out
PartialLegRolledBack ==
    \E h \in Handlers :
        /\ OneLegOnly(h)
        /\ Truthy(FilledLeg(h).filledSize)
        /\ FilledLeg(h).filledSize # handlers[h].size
        /\ Len(Sells(h)) = 1

\* C5: when the compensating SELL fails, a position with status failed is
\* in the positions table.
FailedRollbackRecorded ==
    \A h \in Handlers :
        (handlers[h].pc = "done" /\ handlers[h].rollback = "failed") =>
            \E id \in DOMAIN dbPositions :
                /\ dbPositions[id].status = "failed"
                /\ dbPositions[id].market = handlers[h].market

ReturnsFailure(h) ==
    /\ handlers[h].pc \in InFlight
    /\ handlers'[h].pc = "done"
    /\ ~handlers'[h].result.success

ReturnsSuccess(h) ==
    /\ handlers[h].pc \in InFlight
    /\ handlers'[h].pc = "done"
    /\ handlers'[h].result.success

\* C6: a step in which executeDipTrade returns failure leaves the positions
\* (cache and table) and lastTradeTime unchanged, and lastTradeTime changes
\* only in a step in which executeDipTrade returns success.
CooldownOnlyAfterSuccess ==
    [][ /\ \A h \in Handlers :
              ReturnsFailure(h) => /\ lastTradeTime' = lastTradeTime
                                   /\ openPositions' = openPositions
                                   /\ dbPositions' = dbPositions
        /\ lastTradeTime' # lastTradeTime => \E h \in Handlers : ReturnsSuccess(h)
      ]_vars

\* an admitted execution has returned failure and its market has no cooldown
FailedWithoutCooldown ==
    \E h \in Handlers :
        /\ Admitted(h)
        /\ ~handlers[h].result.success
        /\ Len(handlers[h].orders) > 0
        /\ handlers[h].market \notin DOMAIN lastTradeTime
        /\ ~hasOpenPositionForMarket(handlers[h].market)

-----------------------------------------------------------------------------
(* resolution-tracker.ts and the settling half of position-manager.ts, in  *)
(* live trading mode                                                       *)

getCurrentRoundStart(t) == (t \div marketDurationMs) * marketDurationMs

RECURSIVE Ascending(_)
Ascending(ids) ==
    IF ids = {} THEN <<>>
    ELSE LET least == CHOOSE i \in ids : \A j \in ids : i <= j
         IN  <<least>> \o Ascending(ids \ {least})

\* checkResolutions, lines 78-96: the open positions of windows before the
\* current one, in the cache's insertion order
positionsToResolve(t) ==
    LET due == {id \in DOMAIN openPositions :
                  (openPositions[id].openedAt \div marketDurationMs) * marketDurationMs
                      < getCurrentRoundStart(t)}
        ids == Ascending(due)
    IN  [i \in 1 .. Len(ids) |-> openPositions[ids[i]]]

\* The window whose slug fetchMarketResolution builds: getCurrentPeriodET
\* parses Eastern wall-clock time in the server's zone and generateMarketSlug
\* converts the result to Eastern time once more, so the slug names the
\* current window moved back by the server's offset from Eastern Time
slugWindow(t) == (t \div marketDurationMs) - serverOffset

MarketData == {"up", "down", "unclear", "error"}

\* the market of the queried window is reported closed (or resolved)
marketClosed(market, queried) ==
    queried < 0 \/ <<market, queried>> \in closedMarkets

\* fetchMarketResolution, with resolvePositionNow's catch of its exception:
\* data is an HTTP error, or what the outcome prices of the market show (up
\* above 0.9, down above 0.9, or neither, with the outcomes array present)
fetchMarketResolution(market, queried, data) ==
    IF data = "error" \/ ~marketClosed(market, queried)
    THEN [resolved |-> FALSE, outcome |-> "none"]
    ELSE IF data = "down" THEN [resolved |-> TRUE, outcome |-> "DOWN"]
    ELSE [resolved |-> TRUE, outcome |-> "UP"]

\* resolvePosition's lookup that trusts the caller's copy of the position
lookupCallerCopy(id, copy) == [found |-> TRUE, position |-> copy]

\* resolvePosition, lines 94-99: the position is taken from the cache
lookupPosition(id, copy) ==
    IF id \in DOMAIN openPositions
    THEN [found |-> TRUE, position |-> openPositions[id]]
    ELSE [found |-> FALSE, position |-> copy]

\* resolvePosition, lines 101-111
resolvePosition(position, outcome, payout, fees) ==
    [position EXCEPT !.status = "resolved", !.resolvedAt = now,
                     !.outcome = outcome, !.payout = payout, !.fees = fees,
                     !.actualProfit = QSub(QSub(payout, position.totalCost), fees)]

\* a payout of 1 USD per share of the leg that won
payoutOfWinningLeg(position, outcome) ==
    QMul(QInt(100), IF outcome = "UP" THEN position.sizeUp ELSE position.sizeDown)

\* resolvePositionWithOutcome, lines 204-206: 1 USD (100 cents) per share of
\* the smaller leg, whatever the outcome
payoutOf(position, outcome) ==
    QMul(QInt(100), QMin(position.sizeUp, position.sizeDown))

\* the first fetch of a checkResolutions call made at time t, if any is due
beginCheck(t) ==
    IF Len(positionsToResolve(t)) = 0 THEN IdleCheck
    ELSE [pc |-> "fetching", queue |-> positionsToResolve(t),
          queried |-> slugWindow(t), last |-> "none", data |-> "none"]

\* the loop of checkResolutions moves on to its next position, or ends
nextPosition(check, last) ==
    IF Len(check.queue) <= 1 THEN [IdleCheck EXCEPT !.last = last]
    ELSE [pc |-> "fetching", queue |-> Tail(check.queue),
          queried |-> slugWindow(now), last |-> last, data |-> "none"]

\* the timer callback calls scheduleNextCheck once its check has returned
rescheduled(slot, check) ==
    IF slot = "timer" /\ check.pc = "idle" THEN TRUE ELSE nextCheckTimeout

\* scheduleNextCheck's checkTime; beyond MaxWindows the model keeps one
\* time for every later window
nextCheckTime ==
    IF now \div marketDurationMs >= MaxWindows THEN now
    ELSE getCurrentRoundStart(now) + marketDurationMs + RESOLUTION_DELAY_MS

\* startResolutionTracker: a check is started and not awaited, and the timer set
StartResolutionTracker ==
    /\ ~nextCheckTimeout
    /\ \A c \in CheckSlots : checks[c].pc = "idle"
    /\ checks' = [checks EXCEPT !["startup"] = beginCheck(now)]
    /\ nextCheckTimeout' = TRUE
    /\ UNCHANGED <<now, orderbookCache, threshold, detectorVars, handlerVars,
                   positionVars, closedMarkets, serverOffset,
                   ingestVars, presignVars, windowTiming>>

\* the timer set by scheduleNextCheck fires one minute after the window's end
TimerFires ==
    /\ nextCheckTimeout
    /\ now' = nextCheckTime
    /\ checks' = [checks EXCEPT !["timer"] = beginCheck(nextCheckTime)]
    /\ nextCheckTimeout' = (beginCheck(nextCheckTime).pc = "idle")
    /\ UNCHANGED <<orderbookCache, threshold, detectorVars, handlerVars,
                   positionVars, closedMarkets, serverOffset,
                   ingestVars, presignVars, windowTiming>>

\* The Gamma API answers the fetch of resolvePositionNow; a resolved market
\* leads through resolvePositionWithOutcome to resolvePosition, whose
\* savePosition succeeds or throws (the exception ends at the catch of
\* resolvePositionNow, before the cache is touched)
FetchResponse(slot, data, saveOk) ==
    LET check == checks[slot]
        position == Head(check.queue)
        resolution == fetchMarketResolution(position.market, check.queried, data)
        lookup == lookupPosition(position.id, position)
        resolved == resolvePosition(lookup.position, resolution.outcome,
                                    payoutOf(position, resolution.outcome),
                                    position.fees)
        after == IF ~resolution.resolved THEN nextPosition(check, "unresolved")
                 ELSE IF ~lookup.found THEN nextPosition(check, "notFound")
                 ELSE IF ~saveOk THEN nextPosition(check, "error")
                 ELSE [check EXCEPT !.pc = "notifying", !.last = "resolved",
                                    !.data = data]
    IN  /\ check.pc = "fetching"
        /\ checks' = [checks EXCEPT ![slot] = after]
        /\ nextCheckTimeout' = rescheduled(slot, after)
        /\ IF resolution.resolved /\ lookup.found /\ saveOk
           THEN /\ dbPositions' = MapSet(dbPositions, position.id, resolved)
                /\ openPositions' = MapDelete(openPositions, position.id)
                /\ transitions' = MapSet(transitions, position.id,
                                         MapGet(transitions, position.id, 0) + 1)
           ELSE UNCHANGED positionVars
        /\ UNCHANGED <<now, orderbookCache, threshold, detectorVars, handlerVars,
                       closedMarkets, serverOffset,
                       ingestVars, presignVars, windowTiming>>

\* notifyPositionResolved returns and the loop moves on
NotifyReturns(slot) ==
    LET after == nextPosition(checks[slot], "resolved")
    IN  /\ checks[slot].pc = "notifying"
        /\ checks' = [checks EXCEPT ![slot] = after]
        /\ nextCheckTimeout' = rescheduled(slot, after)
        /\ UNCHANGED <<now, orderbookCache, threshold, detectorVars, handlerVars,
                       positionVars, closedMarkets, serverOffset,
                       ingestVars, presignVars, windowTiming>>

\* position-manager.ts markPositionFailed (exported; nothing in the
\* repository calls it)
MarkPositionFailed(id, saveOk) ==
    /\ IF id \in DOMAIN openPositions /\ saveOk
       THEN LET position == openPositions[id]
                failed == [position EXCEPT
                              !.status = "failed", !.resolvedAt = now,
                              !.actualProfit = QSub(QInt(0), position.totalCost)]
            IN  /\ dbPositions' = MapSet(dbPositions, id, failed)
                /\ openPositions' = MapDelete(openPositions, id)
                /\ transitions' = MapSet(transitions, id,
                                         MapGet(transitions, id, 0) + 1)
       ELSE UNCHANGED positionVars
    /\ UNCHANGED <<now, orderbookCache, threshold, detectorVars, handlerVars,
                   trackerVars, ingestVars, presignVars, windowTiming>>

\* the exchange closes the market of a window that has ended, with a winner
ExchangeCloses(market, window) ==
    /\ window < now \div marketDurationMs
    /\ <<market, window>> \notin closedMarkets
    /\ closedMarkets' = closedMarkets \cup {<<market, window>>}
    /\ UNCHANGED <<now, orderbookCache, threshold, detectorVars, handlerVars,
                   positionVars, nextCheckTimeout, checks, serverOffset,
                   ingestVars, presignVars, windowTiming>>

\* Open positions as an earlier run can have left them in the table: both
\* legs filled in full for BTC, the DOWN leg filled by half for ETH
StoredPositions ==
    [id \in {1, 2} |->
        IF id = 1
        THEN createPosition([market |-> "BTC"],
                            [id |-> 1, openedAt |-> StartTime, sizeUp |-> QInt(100),
                             sizeDown |-> QInt(100), totalCost |-> QInt(9200),
                             fees |-> QInt(0)])
        ELSE createPosition([market |-> "ETH"],
                            [id |-> 2, openedAt |-> StartTime, sizeUp |-> QInt(100),
                             sizeDown |-> QInt(50), totalCost |-> QInt(6850),
                             fees |-> QInt(0)])]

PositionIds == DOMAIN StoredPositions

\* 0: the server runs in Eastern Time; 5: it runs in UTC (winter)
ServerOffsets == {0, 5}

\* the process starts in the window the stored positions were opened in, or
\* in the window after it; initPositionManager has loaded the open positions
InitRes ==
    /\ now \in {StartTime, marketDurationMs + StartTime}
    /\ orderbookCache = EmptyMap
    /\ activeDips = EmptyMap
    /\ lastTradeTime = EmptyMap
    /\ pendingTrades = {}
    /\ detection = NoDetection
    /\ threshold = DIP_THRESHOLD
    /\ isRunning = TRUE
    /\ maxOpenPositions = MAX_OPEN_POSITIONS
    /\ handlers = [h \in Handlers |-> IdleHandler]
    /\ \E ids \in SUBSET PositionIds :
          /\ dbPositions = [id \in ids |-> StoredPositions[id]]
          /\ openPositions = [id \in ids |-> StoredPositions[id]]
    /\ transitions = EmptyMap
    /\ nextCheckTimeout = FALSE
    /\ checks = [c \in CheckSlots |-> IdleCheck]
    /\ closedMarkets = {}
    /\ serverOffset \in ServerOffsets
    /\ StreamStarted
    /\ PresignerStarted

Windows == 0 .. MaxWindows - 1

NextRes ==
    \/ StartResolutionTracker
    \/ TimerFires
    \/ \E c \in CheckSlots, d \in MarketData, saveOk \in BOOLEAN :
          FetchResponse(c, d, saveOk)
    \/ \E c \in CheckSlots : NotifyReturns(c)
    \/ \E id \in PositionIds, saveOk \in BOOLEAN : MarkPositionFailed(id, saveOk)
    \/ \E m \in Markets, w \in Windows : ExchangeCloses(m, w)

SpecRes == InitRes /\ [][NextRes]_vars

\* The tracker keeps running, the API answers, and the exchange closes the
\* market of every window that has ended
FairSpecRes ==
    /\ SpecRes
    /\ WF_vars(StartResolutionTracker)
    /\ WF_vars(TimerFires)
    /\ \A c \in CheckSlots :
          /\ WF_vars(\E d \in MarketData : FetchResponse(c, d, TRUE))
          /\ WF_vars(NotifyReturns(c))
    /\ \A m \in Markets, w \in Windows : WF_vars(ExchangeCloses(m, w))

StillOpen(id) == id \in DOMAIN dbPositions /\ dbPositions[id].status = "open"

Settled(id) == id \in DOMAIN dbPositions /\ dbPositions[id].status # "open"

\* C8: every Open position is eventually resolved or failed, when the tracker
\* keeps running and the exchange reports the market of every ended window
\* as closed with a winner.
EveryOpenPositionSettles ==
    \A id \in PositionIds : StillOpen(id) ~> Settled(id)

\* C9: no position is moved out of open more than once, whatever checks and
\* failure markings overlap: a settled position has been written exactly once
\* and is no longer in the cache the settling operations start from.
ResolutionSingleFire ==
    \A id \in DOMAIN dbPositions :
        /\ MapGet(transitions, id, 0) <= 1
        /\ Settled(id) => (transitions[id] = 1 /\ id \notin DOMAIN openPositions)

\* a check got its answer for a position that another check had settled
\* meanwhile, and resolvePosition found nothing to settle
SecondCheckFoundNothing ==
    \E c \in CheckSlots, id \in PositionIds :
        /\ checks[c].last = "notFound"
        /\ Settled(id)
        /\ transitions[id] = 1

-----------------------------------------------------------------------------
(* market-data.ts: the websocket stream of snapshots and price changes *)

MaxMessages == 3
MaxDipMessages == 4

\* Array.prototype.sort with a comparator on the price: a stable sort
InsertAscending(sorted, level) ==
    LET k == Cardinality({i \in 1 .. Len(sorted) : sorted[i].price <= level.price})
    IN  SubSeq(sorted, 1, k) \o <<level>> \o SubSeq(sorted, k + 1, Len(sorted))

InsertDescending(sorted, level) ==
    LET k == Cardinality({i \in 1 .. Len(sorted) : sorted[i].price >= level.price})
    IN  SubSeq(sorted, 1, k) \o <<level>> \o SubSeq(sorted, k + 1, Len(sorted))

RECURSIVE SortAscending(_)
SortAscending(levels) ==
    IF levels = <<>> THEN <<>>
    ELSE InsertAscending(SortAscending(SubSeq(levels, 1, Len(levels) - 1)),
                         levels[Len(levels)])

RECURSIVE SortDescending(_)
SortDescending(levels) ==
    IF levels = <<>> THEN <<>>
    ELSE InsertDescending(SortDescending(SubSeq(levels, 1, Len(levels) - 1)),
                          levels[Len(levels)])

\* the orderbook a handler creates when the cache has none under the key
newOrderbook(tokenInfo) ==
    [market |-> tokenInfo.symbol, timestamp |-> now,
     UP |-> [bids |-> <<>>, asks |-> <<>>],
     DOWN |-> [bids |-> <<>>, asks |-> <<>>],
     windowOffset |-> tokenInfo.windowOffset,
     windowLabel |-> tokenInfo.windowLabel]

\* the cache key with the window dropped: the current window of the symbol
cacheKeyOfSymbol(tokenInfo) == mapKeyOf(tokenInfo.symbol, 0)

\* the key under which the handlers read and store the orderbook
cacheKey(tokenInfo) == tokenInfo.mapKey

\* handleOrderbookUpdate, lines 1093-1128: both ladders of the token's side
\* are replaced by the message's levels, sorted, and the book is re-stamped
applySnapshot(orderbook, isUpSide, data) ==
    LET side == [bids |-> SortDescending(data.bids),
                 asks |-> SortAscending(data.asks)]
    IN  [orderbook EXCEPT !.UP = IF isUpSide THEN side ELSE @,
                          !.DOWN = IF isUpSide THEN @ ELSE side,
                          !.timestamp = now]

\* handlePriceChange, lines 1026-1054, for one side of the book
priceChangedSide(side, change) ==
    [bids |-> IF "best_bid" \in DOMAIN change
              THEN <<Level(change.best_bid, 1000)>> ELSE side.bids,
     asks |-> IF "best_ask" \in DOMAIN change
              THEN <<Level(change.best_ask, 1000)>>
              ELSE IF change.side \in {"SELL", "sell"}
                   THEN <<Level(change.price, change.size)>>
                   ELSE side.asks]

applyPriceChange(orderbook, isUpSide, change) ==
    [orderbook EXCEPT !.UP = IF isUpSide THEN priceChangedSide(@, change) ELSE @,
                      !.DOWN = IF isUpSide THEN @ ELSE priceChangedSide(@, change),
                      !.timestamp = now]

\* the DIP STARTED and DIP ENDED lines detectDip logs (lines 168-184 and
\* 196-214) on the call that takes the dips from before to after, with the
\* window of the orderbook the call was made for
dipEvents(orderbook, before, after) ==
    LET market == orderbook.market
    IN  IF market \in DOMAIN before /\ market \notin DOMAIN after
        THEN <<[type |-> "DIP ENDED", market |-> market,
                windowOffset |-> orderbook.windowOffset,
                timestamp |-> orderbook.timestamp,
                durationMs |-> orderbook.timestamp - before[market].startTime]>>
        ELSE IF market \notin DOMAIN before /\ market \in DOMAIN after
             THEN <<[type |-> "DIP STARTED", market |-> market,
                     windowOffset |-> orderbook.windowOffset,
                     timestamp |-> orderbook.timestamp,
                     durationMs |-> 0]>>
             ELSE <<>>

\* index.ts handleOrderbookUpdate from line 246 to its await of
\* notifyDipDetected, in the invocation h whose orderbook object is the cache
\* entry under key
DetectAndNotify(h, key, orderbook, result) ==
    IF \/ ~canOpenPosition
       \/ hasOpenPositionForMarket(orderbook.market)
    THEN /\ handlers' = [handlers EXCEPT ![h] = IdleHandler]
         /\ UNCHANGED <<activeDips, events>>
    ELSE /\ activeDips' = result.activeDips
         /\ events' = events \o dipEvents(orderbook, activeDips, result.activeDips)
         /\ handlers' = [handlers EXCEPT ![h] =
               IF result.shouldTrade
               THEN [IdleHandler EXCEPT
                        !.pc = "notifyDip",
                        !.market = orderbook.market,
                        !.book = key,
                        !.opportunity = result.opportunity]
               ELSE IdleHandler]

\* The registered callback, index.ts handleOrderbookUpdate, called with the
\* orderbook stored under key: it runs to its first await, which is that of
\* handleStrategyB when config.strategyB.enabled is set and that of
\* notifyDipDetected otherwise
InvokeCallback(strategyB, key, orderbook, result) ==
    IF ~isRunning
    THEN UNCHANGED <<activeDips, handlers, events>>
    ELSE IF strategyB
    THEN /\ \E h \in IdleSlots :
              /\ \A g \in IdleSlots : h <= g
              /\ handlers' = [handlers EXCEPT ![h] =
                    [IdleHandler EXCEPT !.pc = "strategyB",
                                        !.market = orderbook.market,
                                        !.book = key]]
         /\ UNCHANGED <<activeDips, events>>
    ELSE IF IdleSlots # {}
    THEN \E h \in IdleSlots :
           /\ \A g \in IdleSlots : h <= g
           /\ DetectAndNotify(h, key, orderbook, result)
    ELSE LET returnsEarly == \/ ~canOpenPosition
                             \/ hasOpenPositionForMarket(orderbook.market)
         IN  /\ returnsEarly \/ ~result.shouldTrade
             /\ activeDips' = IF returnsEarly THEN activeDips
                              ELSE result.activeDips
             /\ events' = IF returnsEarly THEN events
                          ELSE events \o dipEvents(orderbook, activeDips,
                                                   result.activeDips)
             /\ UNCHANGED handlers

\* handleStrategyB returns to the invocation h (index.ts line 240): the
\* handler goes on with the orderbook object it was called with, as the
\* updates applied meanwhile have left it
StrategyBReturns(h) ==
    LET self == handlers[h]
        orderbook == orderbookCache[self.book]
    IN  /\ self.pc = "strategyB"
        /\ DetectAndNotify(h, self.book, orderbook, detectDip(orderbook))
        /\ UNCHANGED <<now, orderbookCache, threshold, lastTradeTime,
                       pendingTrades, detection, isRunning, maxOpenPositions,
                       positionVars, trackerVars, presignVars, windowTiming,
                       marketTokens, tokenIdLookup, nextWindowTokens, rotation,
                       orderbookCallbacks, invoked, updateCount, connVars>>

\* The common course of handlePriceChange and handleOrderbookUpdate once the
\* updated orderbook is computed: it is stored under the key and every
\* registered callback is called with it
StoreAndNotify(strategyB, key, orderbook) ==
    /\ updateCount' = updateCount + 1
    /\ orderbookCache' = MapSet(orderbookCache, key, orderbook)
    /\ invoked' = orderbookCallbacks
    /\ InvokeCallback(strategyB, key, orderbook, detectDip(orderbook))
    /\ UNCHANGED <<now, threshold, lastTradeTime, pendingTrades, detection,
                   isRunning, maxOpenPositions, positionVars, trackerVars, presignVars, windowTiming,
                   marketTokens, tokenIdLookup, nextWindowTokens, rotation,
                   orderbookCallbacks, connVars>>

\* a message for a token that is not in the lookup is dropped
NotOurMarket ==
    /\ invoked' = <<>>
    /\ UNCHANGED <<now, orderbookCache, threshold, detectorVars, handlerVars,
                   positionVars, trackerVars, presignVars, windowTiming, marketTokens, tokenIdLookup,
                   nextWindowTokens, rotation, orderbookCallbacks, updateCount,
                   events, connVars>>

\* market-data.ts handleOrderbookUpdate, for a book snapshot, with
\* config.strategyB.enabled as given
SnapshotArrives(strategyB, data) ==
    IF data.asset_id \notin DOMAIN tokenIdLookup
    THEN NotOurMarket
    ELSE LET tokenInfo == tokenIdLookup[data.asset_id]
         IN  StoreAndNotify(strategyB, cacheKey(tokenInfo),
                applySnapshot(MapGet(orderbookCache, cacheKey(tokenInfo),
                                     newOrderbook(tokenInfo)),
                              tokenInfo.isUpSide, data))

\* the same with Strategy B disabled, as it is by default
HandleSnapshot(data) == SnapshotArrives(FALSE, data)

\* market-data.ts handlePriceChange, for one element of price_changes
HandlePriceChange(change) ==
    IF change.asset_id \notin DOMAIN tokenIdLookup
    THEN NotOurMarket
    ELSE LET tokenInfo == tokenIdLookup[change.asset_id]
         IN  StoreAndNotify(FALSE, cacheKey(tokenInfo),
                applyPriceChange(MapGet(orderbookCache, cacheKey(tokenInfo),
                                        newOrderbook(tokenInfo)),
                                 tokenInfo.isUpSide, change))

\* The tokens the stream's messages are drawn for: both tokens of the current
\* window of BTC and of the next one, and a token of a window not watched
StreamAssets ==
    { tokenIdOf("BTC", 0, "UP"), tokenIdOf("BTC", 0, "DOWN"),
      tokenIdOf("BTC", periodSeconds, "UP"), tokenIdOf("BTC", periodSeconds, "DOWN"),
      tokenIdOf("BTC", 5 * periodSeconds, "UP") }

\* The ladders of the snapshot messages, as the exchange sends them: a dip
\* price, an unsorted pair above it, and a ladder that lists a price twice,
\* once with size 0
SnapshotLadders ==
    { [bids |-> <<Level(44, 100)>>, asks |-> <<Level(45, 1000)>>],
      [bids |-> <<Level(43, 100), Level(44, 100)>>,
       asks |-> <<Level(52, 1000), Level(50, 1000)>>],
      [bids |-> <<>>, asks |-> <<Level(47, 0), Level(47, 1000)>>] }

Snapshots ==
    { [asset_id |-> a, bids |-> l.bids, asks |-> l.asks] :
        a \in StreamAssets, l \in SnapshotLadders }

\* The price changes: one with best_bid and best_ask, one SELL without them
PriceChanges ==
    { [asset_id |-> a, price |-> 46, size |-> 200, side |-> "BUY",
       best_bid |-> 44, best_ask |-> 46] : a \in StreamAssets }
    \cup { [asset_id |-> a, price |-> 48, size |-> 200, side |-> "SELL"] :
             a \in StreamAssets }

NextStream ==
    \/ Tick
    \/ \E data \in Snapshots : updateCount < MaxMessages /\ HandleSnapshot(data)
    \/ \E change \in PriceChanges :
          updateCount < MaxMessages /\ HandlePriceChange(change)

SpecStream == InitDetect /\ [][NextStream]_vars

\* The snapshots of the two nearest windows of BTC alone, with sorted ladders
\* of one level: long enough a stream for a dip to start in one window and
\* the other window's book to be complete
DipSnapshots ==
    { [asset_id |-> tokenIdOf("BTC", p, o), bids |-> <<>>, asks |-> <<Level(a, 1000)>>] :
        p \in {0, periodSeconds}, o \in {"UP", "DOWN"}, a \in {45, 49} }

NextDips ==
    \/ Tick
    \/ \E data \in DipSnapshots : updateCount < MaxDipMessages /\ HandleSnapshot(data)

SpecDips == InitDetect /\ [][NextDips]_vars


-----------------------------------------------------------------------------
(* Properties of the dip events *)

\* the events logged on updates of the given window of the market
EventsOf(market, windowOffset) ==
    SelectSeq(events, LAMBDA e : e.market = market /\ e.windowOffset = windowOffset)

\* C15: the DIP STARTED and DIP ENDED events of a (symbol, window) alternate,
\* starting with DIP STARTED, and each DIP ENDED reports as its duration its
\* timestamp minus the timestamp of the DIP STARTED before it in the same
\* (symbol, window), which is not negative.
DipEventsAlternate ==
    \A market \in Markets, windowOffset \in WindowOffsets :
        LET es == EventsOf(market, windowOffset)
        IN  \A i \in 1 .. Len(es) :
              IF i % 2 = 1
              THEN es[i].type = "DIP STARTED"
              ELSE /\ es[i].type = "DIP ENDED"
                   /\ es[i].durationMs = es[i].timestamp - es[i - 1].timestamp
                   /\ es[i].durationMs >= 0

-----------------------------------------------------------------------------
(* Properties of the orderbook store *)

StrictlyAscending(levels) ==
    \A i \in 1 .. Len(levels) - 1 : levels[i].price < levels[i + 1].price

StrictlyDescending(levels) ==
    \A i \in 1 .. Len(levels) - 1 : levels[i].price > levels[i + 1].price

\* C16: in every stored orderbook the asks of each side are strictly
\* ascending in price and the bids strictly descending, so that no two
\* levels of a ladder share a price.
StoredLaddersStrictlySorted ==
    \A key \in DOMAIN orderbookCache :
        /\ StrictlyAscending(orderbookCache[key].UP.asks)
        /\ StrictlyAscending(orderbookCache[key].DOWN.asks)
        /\ StrictlyDescending(orderbookCache[key].UP.bids)
        /\ StrictlyDescending(orderbookCache[key].DOWN.bids)

\* the stored side of the book that messages for the token are applied to
StoredSide(cache, tokenInfo) ==
    IF tokenInfo.isUpSide THEN cache[tokenInfo.mapKey].UP
    ELSE cache[tokenInfo.mapKey].DOWN

\* a step in which the snapshot is handled for a token of the lookup
SnapshotApplied(data) ==
    data.asset_id \in DOMAIN tokenIdLookup /\ HandleSnapshot(data)

\* a step in which the price change is handled for a token of the lookup
PriceChangeApplied(change) ==
    change.asset_id \in DOMAIN tokenIdLookup /\ HandlePriceChange(change)

NoEmptyLevel(levels) == \A i \in 1 .. Len(levels) : levels[i].size > 0

\* C17: after a snapshot is applied, the ladders stored for its side hold no
\* level of size 0.
SnapshotDropsEmptyLevels ==
    [][\A data \in Snapshots :
          SnapshotApplied(data) =>
              /\ NoEmptyLevel(StoredSide(orderbookCache',
                                         tokenIdLookup[data.asset_id]).asks)
              /\ NoEmptyLevel(StoredSide(orderbookCache',
                                         tokenIdLookup[data.asset_id]).bids)]_vars

Levels(ladder) == {ladder[i] : i \in 1 .. Len(ladder)}

\* C18: a price change leaves in the ask ladder every level stored before it
\* whose price is beyond the new best ask.
PriceChangeKeepsDeeperAsks ==
    [][\A change \in PriceChanges :
          (/\ PriceChangeApplied(change)
           /\ tokenIdLookup[change.asset_id].mapKey \in DOMAIN orderbookCache) =>
              LET before == StoredSide(orderbookCache,
                                       tokenIdLookup[change.asset_id]).asks
                  after == StoredSide(orderbookCache',
                                      tokenIdLookup[change.asset_id]).asks
              IN  \A level \in Levels(before) :
                     (after # <<>> /\ level.price > after[1].price) =>
                         level \in Levels(after)]_vars

\* the handling of one update of the stream, of either kind
Handles(update) ==
    IF "bids" \in DOMAIN update THEN HandleSnapshot(update)
    ELSE HandlePriceChange(update)

\* C19: an update for a token that is not in the lookup changes no stored
\* orderbook and calls no callback; an update for a token in the lookup
\* changes only the orderbook under the key the lookup gives and calls each
\* registered callback once.
UpdateRoutedByLookup ==
    [][\A update \in Snapshots \cup PriceChanges :
          Handles(update) =>
              IF update.asset_id \notin DOMAIN tokenIdLookup
              THEN orderbookCache' = orderbookCache /\ invoked' = <<>>
              ELSE /\ \A key \in DOMAIN orderbookCache' :
                         key # tokenIdLookup[update.asset_id].mapKey =>
                             /\ key \in DOMAIN orderbookCache
                             /\ orderbookCache'[key] = orderbookCache[key]
                   /\ DOMAIN orderbookCache \subseteq DOMAIN orderbookCache'
                   /\ invoked' = orderbookCallbacks
                   /\ \A c \in Levels(orderbookCallbacks) :
                         Cardinality({i \in 1 .. Len(invoked') : invoked'[i] = c}) = 1]_vars

\* both nearest windows of BTC hold a book of their own, the next window's
\* stored last with the callbacks called
TwoWindowsStored ==
    /\ {"BTC_0", "BTC_1"} \subseteq DOMAIN orderbookCache
    /\ orderbookCache["BTC_0"].UP # orderbookCache["BTC_1"].UP
    /\ orderbookCache["BTC_1"].timestamp > orderbookCache["BTC_0"].timestamp
    /\ invoked = orderbookCallbacks

-----------------------------------------------------------------------------
(* market-data.ts: the rotation of the windows *)

MaxRotations == 2
PREFETCH_LEAD == 4     \* 2 * 60 * 1000 ms, in units of 30 000 ms

\* the record prefetchNextWindowTokens and fetchMarketTokens build: it is
\* that of the current window, whatever the period
currentWindowTokens(symbol, periodTimestamp) ==
    fetchMarketTokensForPeriod(symbol, periodTimestamp, 0, windowLabelOf(0))

\* fetchMarketTokens, by slug: the first listed window of the current period
\* and the next one, when the exchange answers for the symbol
fetchMarketTokens(symbol, time) ==
    IF listed(symbol, getCurrentPeriodTimestamp(time))
    THEN <<currentWindowTokens(symbol, getCurrentPeriodTimestamp(time))>>
    ELSE IF listed(symbol, getNextPeriodTimestamp(time))
         THEN <<currentWindowTokens(symbol, getNextPeriodTimestamp(time))>>
         ELSE <<>>

\* Map.set for every entry of a map of new records
SetAll(map, entries) ==
    [k \in DOMAIN map \cup DOMAIN entries |->
        IF k \in DOMAIN entries THEN entries[k] ELSE map[k]]

\* connectWebSocket: a new WebSocket for the token ids of the records held
\* now becomes wsConnection, whatever wsConnection was
connectWebSocket(socks, ws, tokens) ==
    LET id == CHOOSE i \in SocketIds :
                  /\ socks[i].state = "unused"
                  /\ \A j \in SocketIds : socks[j].state = "unused" => i <= j
    IN  IF TokenIdsOf(tokens) = {}
        THEN [sockets |-> socks, wsConnection |-> ws]
        ELSE [sockets |-> [socks EXCEPT ![id] =
                              [state |-> "connecting",
                               tokens |-> TokenIdsOf(tokens),
                               subscribed |-> {}]],
              wsConnection |-> id]

CanConnect == \E i \in SocketIds : sockets[i].state = "unused"

\* wsConnection.close() where wsConnection is not null
closeConnection(socks, ws) ==
    IF ws # 0 THEN [socks EXCEPT ![ws].state = "closing"] ELSE socks

\* The 'open' event of a socket: the subscription with the token ids
\* collected at the connect is sent through wsConnection, which is the
\* socket only if it was not reassigned meanwhile; no message goes out
\* through null or through a socket that is not open
SocketOpens(id) ==
    /\ sockets[id].state = "connecting"
    /\ sockets' =
          LET opened == [sockets EXCEPT ![id].state = "open"]
          IN  IF wsConnection = 0 THEN opened
              ELSE IF opened[wsConnection].state = "open"
                   THEN [opened EXCEPT ![wsConnection].subscribed =
                                           @ \cup sockets[id].tokens]
                   ELSE opened
    /\ UNCHANGED <<now, orderbookCache, threshold, detectorVars, handlerVars,
                   positionVars, trackerVars, presignVars, windowTiming, marketTokens, tokenIdLookup,
                   nextWindowTokens, rotation, orderbookCallbacks, invoked,
                   updateCount, events, wsConnection, timers, exited>>

\* The 'close' event of a socket, closed by the network or by close(): the
\* handler sets wsConnection to null and sets the 5 s reconnect timer
SocketCloses(id) ==
    /\ sockets[id].state \in {"connecting", "open", "closing"}
    /\ sockets' = [sockets EXCEPT ![id].state = "closed"]
    /\ wsConnection' = 0
    /\ timers' = [timers EXCEPT !.reconnect = TRUE]
    /\ UNCHANGED <<now, orderbookCache, threshold, detectorVars, handlerVars,
                   positionVars, trackerVars, presignVars, windowTiming, marketTokens, tokenIdLookup,
                   nextWindowTokens, rotation, orderbookCallbacks, invoked,
                   updateCount, events, exited>>

\* the reconnect timer fires: connectWebSocket
ReconnectFires ==
    /\ timers.reconnect
    /\ CanConnect
    /\ timers' = [timers EXCEPT !.reconnect = FALSE]
    /\ sockets' = connectWebSocket(sockets, wsConnection, marketTokens).sockets
    /\ wsConnection' =
          connectWebSocket(sockets, wsConnection, marketTokens).wsConnection
    /\ UNCHANGED <<now, orderbookCache, threshold, detectorVars, handlerVars,
                   positionVars, trackerVars, presignVars, windowTiming, marketTokens, tokenIdLookup,
                   nextWindowTokens, rotation, orderbookCallbacks, invoked,
                   updateCount, events, exited>>

\* The prefetch timer of scheduleNextWindowRotation fires two minutes before
\* the boundary, or at once when less is left: prefetchNextWindowTokens
\* clears nextWindowTokens, fixes the next period and awaits its first fetch
PrefetchFires ==
    LET fireAt == getNextPeriodTimestamp(now) - PREFETCH_LEAD
        time == IF now < fireAt THEN fireAt ELSE now
    IN  /\ timers.prefetch
        /\ rotation.prefetch = <<>>
        /\ now' = time
        /\ elapsed' = IF now < fireAt THEN 0 ELSE elapsed
        /\ timers' = [timers EXCEPT !.prefetch = FALSE]
        /\ nextWindowTokens' = EmptyMap
        /\ rotation' = [rotation EXCEPT
                           !.prefetch = MarketOrder,
                           !.prefetchTimestamp = getNextPeriodTimestamp(time)]
        /\ UNCHANGED <<orderbookCache, threshold, detectorVars, handlerVars,
                       positionVars, trackerVars, orderCache, hotMarkets,
                       signing, cacheHits, cacheMisses, lastLookup,
                       windowTiming, marketTokens, tokenIdLookup,
                       orderbookCallbacks, invoked, updateCount, events,
                       sockets, wsConnection, exited>>

\* a fetch of prefetchNextWindowTokens returns, with the market or without
PrefetchFetch(answered) ==
    LET symbol == Head(rotation.prefetch)
    IN  /\ rotation.prefetch # <<>>
        /\ nextWindowTokens' =
              IF answered /\ listed(symbol, rotation.prefetchTimestamp)
              THEN MapSet(nextWindowTokens, symbol,
                          currentWindowTokens(symbol, rotation.prefetchTimestamp))
              ELSE nextWindowTokens
        /\ rotation' = [rotation EXCEPT !.prefetch = Tail(@)]
        /\ UNCHANGED <<now, orderbookCache, threshold, detectorVars,
                       handlerVars, positionVars, trackerVars, presignVars, windowTiming, marketTokens,
                       tokenIdLookup, orderbookCallbacks, invoked, updateCount,
                       events, connVars>>

\* executeWindowRotation, lines 817-829, once the tokens are switched: the
\* lookup is rebuilt, the connection is closed and a new one made, and
\* scheduleNextWindowRotation sets the two timers
RotationEnds(tokens) ==
    /\ CanConnect
    /\ marketTokens' = tokens
    /\ tokenIdLookup' = rebuildTokenLookup(tokens)
    /\ sockets' = connectWebSocket(closeConnection(sockets, wsConnection),
                                   0, tokens).sockets
    /\ wsConnection' = connectWebSocket(closeConnection(sockets, wsConnection),
                                        0, tokens).wsConnection
    /\ timers' = [timers EXCEPT !.rotation = TRUE, !.prefetch = TRUE]

\* The rotation timer fires at the window boundary: executeWindowRotation
\* switches to the prefetched tokens at once, or, when there are none,
\* fetches the tokens of each market in turn.  The prefetch timer, set for
\* an earlier time, has fired before
RotationFires ==
    /\ timers.rotation
    /\ ~timers.prefetch
    /\ rotation.pc = "idle"
    /\ rotation.completed < MaxRotations
    /\ now' = getNextPeriodTimestamp(now)
    /\ elapsed' = 0
    /\ nextWindowTokens' = EmptyMap
    /\ IF DOMAIN nextWindowTokens # {}
       THEN /\ RotationEnds(SetAll(marketTokens, nextWindowTokens))
            /\ rotation' = [rotation EXCEPT !.completed = @ + 1]
       ELSE /\ rotation' = [rotation EXCEPT !.pc = "fetching",
                                            !.queue = MarketOrder]
            /\ timers' = [timers EXCEPT !.rotation = FALSE]
            /\ UNCHANGED <<marketTokens, tokenIdLookup, sockets, wsConnection>>
    /\ UNCHANGED <<orderbookCache, threshold, detectorVars, handlerVars,
                   positionVars, trackerVars, orderCache, hotMarkets, signing,
                   cacheHits, cacheMisses, lastLookup, windowTiming,
                   orderbookCallbacks, invoked, updateCount, events, exited>>

\* the marketTokens map after a fetch of the rotation returns for the symbol
fetchedInto(tokens, symbol, answered, time) ==
    IF answered /\ fetchMarketTokens(symbol, time) # <<>>
    THEN MapSet(tokens, symbol, fetchMarketTokens(symbol, time)[1])
    ELSE tokens

\* A fetchMarketTokens call of executeWindowRotation returns: the record is
\* stored, and either the next market's fetch is awaited or the rotation ends
RotationFetch(answered) ==
    LET symbol == Head(rotation.queue)
    IN  /\ rotation.pc = "fetching"
        /\ IF Len(rotation.queue) > 1
           THEN /\ marketTokens' = fetchedInto(marketTokens, symbol, answered, now)
                /\ rotation' = [rotation EXCEPT !.queue = Tail(@)]
                /\ UNCHANGED <<tokenIdLookup, sockets, wsConnection, timers>>
           ELSE /\ RotationEnds(fetchedInto(marketTokens, symbol, answered, now))
                /\ rotation' = [rotation EXCEPT !.pc = "idle", !.queue = <<>>,
                                                !.completed = @ + 1]
        /\ UNCHANGED <<now, orderbookCache, threshold, detectorVars,
                       handlerVars, positionVars, trackerVars, presignVars, windowTiming, nextWindowTokens,
                       orderbookCallbacks, invoked, updateCount, events, exited>>

\* index.ts shutdown to its first await: isRunning is cleared,
\* stopResolutionTracker clears the check timer and stopOrderbookStreams
\* clears the timers, closes the connection and drops the callbacks
Shutdown ==
    /\ isRunning
    /\ isRunning' = FALSE
    /\ nextCheckTimeout' = FALSE
    /\ timers' = [reconnect |-> FALSE, rotation |-> FALSE, prefetch |-> FALSE]
    /\ sockets' = closeConnection(sockets, wsConnection)
    /\ wsConnection' = 0
    /\ orderbookCallbacks' = <<>>
    /\ nextWindowTokens' = EmptyMap
    /\ UNCHANGED <<now, orderbookCache, threshold, detectorVars,
                   maxOpenPositions, handlers, positionVars, checks,
                   closedMarkets, serverOffset, presignVars, windowTiming, marketTokens, tokenIdLookup,
                   rotation, invoked, updateCount, events, exited>>

\* index.ts shutdown after its notifications: closeDb and process.exit(0)
ShutdownCompletes ==
    /\ ~isRunning
    /\ ~exited
    /\ exited' = TRUE
    /\ UNCHANGED <<now, orderbookCache, threshold, detectorVars, handlerVars,
                   positionVars, trackerVars, presignVars, windowTiming, marketTokens, tokenIdLookup,
                   nextWindowTokens, rotation, orderbookCallbacks, invoked,
                   updateCount, events, sockets, wsConnection, timers>>

\* the snapshots sent during rotations: for the UP tokens of BTC's windows
RotationSnapshots ==
    { [asset_id |-> tokenIdOf("BTC", p, "UP"), bids |-> <<>>,
       asks |-> <<Level(50, 1000)>>] :
        p \in {k * periodSeconds : k \in 0 .. MaxRotations} }

\* a message arrives on an open socket that has subscribed to its token
Delivered(data) ==
    \E id \in SocketIds : /\ sockets[id].state = "open"
                          /\ data.asset_id \in sockets[id].subscribed

\* the rotations and the messages of the connection open at the start
NextRotate ==
    \/ PrefetchFires
    \/ \E answered \in BOOLEAN : PrefetchFetch(answered)
    \/ RotationFires
    \/ \E answered \in BOOLEAN : RotationFetch(answered)
    \/ \E data \in RotationSnapshots :
          /\ updateCount < MaxMessages
          /\ Delivered(data)
          /\ HandleSnapshot(data)

SpecRotate == InitDetect /\ [][NextRotate]_vars

\* The life of the connection: socket events, the reconnect timer, the
\* rotations and the shutdown; once the process has exited nothing runs
NextConnection ==
    /\ ~exited
    /\ \/ PrefetchFires
       \/ \E answered \in BOOLEAN : PrefetchFetch(answered)
       \/ RotationFires
       \/ \E answered \in BOOLEAN : RotationFetch(answered)
       \/ \E id \in SocketIds : SocketOpens(id)
       \/ \E id \in SocketIds : SocketCloses(id)
       \/ ReconnectFires
       \/ Shutdown
       \/ ShutdownCompletes

SpecConnection == InitDetect /\ [][NextConnection]_vars

\* C20: after a completed rotation, marketTokens holds at most one record
\* for each watched symbol and offset, and the record of offset k is that of
\* the window starting k periods after the start of the current period.
RotatedTokensCurrent ==
    rotation.completed > 0 =>
        \A symbol \in Markets, k \in WindowOffsets :
            LET records == {key \in DOMAIN marketTokens :
                               /\ marketTokens[key].symbol = symbol
                               /\ marketTokens[key].windowOffset = k}
            IN  /\ Cardinality(records) <= 1
                /\ \A key \in records :
                      marketTokens[key].periodTimestamp =
                          getCurrentPeriodTimestamp(now) + k * periodSeconds


\* C21: whenever a message of the stream is handled, tokenIdLookup is the
\* lookup derived from marketTokens as it is at that moment.
LookupCurrentOnMessage ==
    [][\A data \in RotationSnapshots :
          (Delivered(data) /\ HandleSnapshot(data)) =>
              tokenIdLookup = rebuildTokenLookup(marketTokens)]_vars

-----------------------------------------------------------------------------
(* Properties of the connection *)

\* the sockets that are connecting or open
LiveSockets == {id \in SocketIds : sockets[id].state \in {"connecting", "open"}}

\* C22: at most one connection to the exchange is open or connecting at any
\* time.
AtMostOneConnection == Cardinality(LiveSockets) <= 1

\* C23 (its subscription part): a socket that opens has subscribed to
\* exactly the token ids of the marketTokens records held at that time.
SubscribesCurrentTokens ==
    [][\A id \in SocketIds :
          (sockets[id].state = "connecting" /\ sockets'[id].state = "open") =>
              sockets'[id].subscribed = TokenIdsOf(marketTokens')]_vars

\* C24: once the stop operations of the shutdown have run, no connection is
\* made, no timer is set and no rotation or prefetch call goes on.
NothingRunsAfterStop ==
    [][~isRunning =>
          /\ \A id \in SocketIds :
                sockets[id].state = "unused" => sockets'[id].state = "unused"
          /\ \A timer \in DOMAIN timers : timers'[timer] => timers[timer]
          /\ rotation' = rotation]_vars

-----------------------------------------------------------------------------
(* The shutdown while executions are in flight *)

\* The execution pipeline with the shutdown signal arriving at any moment;
\* once the process has exited no handler runs any more
NextShutdown ==
    /\ ~exited
    /\ \/ NextExec
       \/ Shutdown
       \/ ShutdownCompletes

SpecShutdown == InitDetect /\ [][NextShutdown]_vars

\* the handlers whose executeDipTrade call has not returned
ExecutionsInFlight == {h \in Handlers : handlers[h].pc \in {"executing", "rollback"}}

\* C25: an execution in flight at the shutdown signal has run to completion
\* (and its position is stored) by the time the store is closed and the
\* process exits.
InFlightCompletesBeforeExit == exited => ExecutionsInFlight = {}


-----------------------------------------------------------------------------
(* executor.ts in paper mode (PAPER_TRADING=true): executeDipTrade returns
   executePaperTrade's result at lines 152-154, before its cost check *)

\* Math.random() * 0.01 of executePaperTrade: no slippage, or the full 1%
PaperSlippages == { Q(100, 100), Q(101, 100) }

\* the value executePaperTrade returns: the simulated failure, or a position
\* of the requested sizes at the slipped cost
executePaperTrade(opportunity, sizeUp, sizeDown, positionId, slippage, fails) ==
    LET actualCostUp == QMul(QMul(QInt(opportunity.askUp), sizeUp), slippage)
        actualCostDown == QMul(QMul(QInt(opportunity.askDown), sizeDown), slippage)
        totalCost == QAdd(actualCostUp, actualCostDown)
    IN  IF fails THEN NoResult
        ELSE [success |-> TRUE,
              position |-> [id |-> positionId, openedAt |-> now,
                            sizeUp |-> sizeUp, sizeDown |-> sizeDown,
                            totalCost |-> totalCost,
                            fees |-> QMul(totalCost, Q(feeRatePct, 100))]]

\* index.ts lines 277-323 in paper mode: the handler sizes the trade, marks
\* the market pending and calls executeDipTrade, which posts no order
PaperSizeAndAdmit(h) ==
    LET self == handlers[h]
        orderbook == orderbookCache[self.book]
        sizing == calculatePositionSizeWithLiquidity(self.opportunity, orderbook)
    IN  /\ self.pc = "notifyDip"
        /\ IF ~sizing.viable
           THEN /\ handlers' = [handlers EXCEPT ![h] =
                       [self EXCEPT !.pc = "done", !.notified = "failed"]]
                /\ UNCHANGED pendingTrades
           ELSE /\ pendingTrades' = markTradePending(self.market)
                /\ handlers' = [handlers EXCEPT ![h] =
                       [self EXCEPT !.pc = "executing", !.admitted = TRUE,
                                    !.size = sizing.sizeUp]]
        /\ UNCHANGED <<now, orderbookCache, threshold, activeDips, lastTradeTime,
                       detection, isRunning, maxOpenPositions, positionVars,
                       trackerVars, ingestVars, presignVars, windowTiming>>

\* executePaperTrade returns after its simulated latency and the handler
\* resumes with the result
PaperTradeReturns(h, slippage, fails, saveOk, logOk) ==
    LET self == handlers[h]
    IN  /\ self.pc = "executing"
        /\ HandleResult(h, self,
                        executePaperTrade(self.opportunity, self.size, self.size,
                                          generatePositionId, slippage, fails),
                        saveOk, logOk)
        /\ UNCHANGED <<now, orderbookCache, threshold, activeDips, detection,
                       isRunning, maxOpenPositions, trackerVars,
                       ingestVars, presignVars, windowTiming>>

NextPaper ==
    \/ Tick
    \/ \E a \in ExecAsksUp : AllIdle /\ HandleOrderbookUpdate("BTC", TRUE, a)
    \/ \E a \in PipelineAsksDown : AllIdle /\ HandleOrderbookUpdate("BTC", FALSE, a)
    \/ \E h \in Handlers : PaperSizeAndAdmit(h)
    \/ \E h \in Handlers, slippage \in PaperSlippages, fails \in BOOLEAN,
          saveOk \in BOOLEAN, logOk \in BOOLEAN :
            PaperTradeReturns(h, slippage, fails, saveOk, logOk)
    \/ \E h \in Handlers : Finish(h)

SpecPaper == InitDetect /\ [][NextPaper]_vars

\* the executions that came back whose opportunity cost more than the maximum
ReturnedAboveMaxCost ==
    {h \in Handlers : /\ handlers[h].pc = "done"
                      /\ handlers[h].admitted
                      /\ QLt(QInt(getMaxTotalCost),
                             handlers[h].opportunity.totalCost)}

\* C26: every call of executeDipTrade whose opportunity.totalCost is above
\* the configured maximum total cost returns failure, has posted no order and
\* leaves no position.
CostAboveMaxRejected ==
    \A h \in ReturnedAboveMaxCost :
        /\ ~handlers[h].result.success
        /\ handlers[h].orders = <<>>
        /\ ~handlers[h].positionCreated


-----------------------------------------------------------------------------
(* order-presigner.ts: the cache of pre-signed orders *)

MaxLookups == 2
MaxClock == 13           \* Date.now() is at most 65 s, in units of 5 000 ms

PRESIGN_MAX_AGE == 6      \* 30000 ms, in units of 5 000 ms
PRESIGN_RESIGN_AGE == 5   \* 25000 ms, in units of 5 000 ms

\* Date.now() in units of 5 000 ms: six of them make one unit of now
DateNow == 6 * now + elapsed

\* Math.round, and toFixed(2) of a price in cents: the nearest integer
MathRound(q) == (2 * q.n + q.d) \div (2 * q.d)

\* order-presigner.ts getCacheKey
getCacheKey(market, side, orderSide, price, size) ==
    <<market, side, orderSide, MathRound(price), MathRound(size)>>

\* the price levels (in cents) and sizes of presignHotMarkets that the lookups
\* below can ask for
priceLevels == {45}

sizes == {100}

PresignSides == {"UP", "DOWN"}

\* order-presigner.ts clearMarketCache
clearMarketCache(cache, market) ==
    [k \in {key \in DOMAIN cache : key[1] # market} |-> cache[k]]

\* order-presigner.ts markMarketHot
MarkMarketHot(market, totalCost) ==
    /\ IF totalCost < threshold + 5 /\ totalCost <= getMaxTotalCost + 2
       THEN /\ hotMarkets' = hotMarkets \cup {market}
            /\ UNCHANGED orderCache
       ELSE /\ hotMarkets' = hotMarkets \ {market}
            /\ orderCache' = IF market \in hotMarkets
                             THEN clearMarketCache(orderCache, market)
                             ELSE orderCache
    /\ hotMarkets' # hotMarkets
    /\ UNCHANGED <<now, orderbookCache, threshold, detectorVars, handlerVars,
                   positionVars, trackerVars, ingestVars, windowTiming, signing, cacheHits,
                   cacheMisses, lastLookup, elapsed>>

\* the clock advances by 5 000 ms
FineTickUntil(limit) ==
    /\ DateNow < limit
    /\ IF elapsed < 5
       THEN elapsed' = elapsed + 1 /\ now' = now
       ELSE elapsed' = 0 /\ now' = now + 1
    /\ UNCHANGED <<orderbookCache, threshold, detectorVars, handlerVars,
                   positionVars, trackerVars, ingestVars, windowTiming, orderCache,
                   hotMarkets, signing, cacheHits, cacheMisses, lastLookup>>

FineTick == FineTickUntil(MaxClock)

\* presignHotMarkets reaches presignOrder for one level of a hot market, with
\* the token id it read from getMarketTokens: an entry younger than 25 s is
\* kept, otherwise createOrder is awaited
PresignOrder(market, side, price, size) ==
    LET key == getCacheKey(market, side, "BUY", QInt(price), QInt(size))
        tokens == getMarketTokens(market)
        tokenId == IF side = "UP" THEN tokens.tokenIdUp ELSE tokens.tokenIdDown
    IN  /\ market \in hotMarkets
        /\ ~(/\ key \in DOMAIN orderCache
             /\ DateNow - orderCache[key].createdAt < PRESIGN_RESIGN_AGE)
        /\ \A call \in signing :
              <<call[1], call[2], call[3], call[4]>> # <<market, side, price, size>>
        /\ signing' = signing \cup {<<market, side, price, size, tokenId>>}
        /\ UNCHANGED <<now, orderbookCache, threshold, detectorVars,
                       handlerVars, positionVars, trackerVars, ingestVars, windowTiming,
                       orderCache, hotMarkets, cacheHits, cacheMisses,
                       lastLookup, elapsed>>

\* clobClient.createOrder returns to presignOrder (lines 208-215), or throws
OrderSigned(call, signed) ==
    LET market == call[1]
        side == call[2]
        key == getCacheKey(market, side, "BUY", QInt(call[3]), QInt(call[4]))
    IN  /\ call \in signing
        /\ signing' = signing \ {call}
        /\ orderCache' =
              IF signed
              THEN MapSet(orderCache, key,
                          [createdAt |-> DateNow,
                           tokenId |-> call[5],
                           side |-> "BUY", price |-> call[3], size |-> call[4]])
              ELSE orderCache
        /\ UNCHANGED <<now, orderbookCache, threshold, detectorVars,
                       handlerVars, positionVars, trackerVars, ingestVars, windowTiming,
                       hotMarkets, cacheHits, cacheMisses, lastLookup, elapsed>>

\* an order served up to and including the age of 30 s
isFreshInclusive(age) == age <= PRESIGN_MAX_AGE

\* the age at which a cached order is served: below 30 s
isFresh(age) == age < PRESIGN_MAX_AGE

\* order-presigner.ts getPresignedOrder
GetPresignedOrder(market, side, orderSide, price, size) ==
    LET key == getCacheKey(market, side, orderSide, price, size)
        cached == key \in DOMAIN orderCache
        age == IF cached THEN DateNow - orderCache[key].createdAt ELSE -1
    IN  /\ cacheHits + cacheMisses < MaxLookups
        /\ IF cached /\ isFresh(age)
           THEN /\ cacheHits' = cacheHits + 1
                /\ lastLookup' = [key |-> key, age |-> age, hit |-> TRUE]
                /\ UNCHANGED <<orderCache, cacheMisses>>
           ELSE /\ orderCache' = MapDelete(orderCache, key)
                /\ cacheMisses' = cacheMisses + 1
                /\ lastLookup' = [key |-> key, age |-> age, hit |-> FALSE]
                /\ UNCHANGED cacheHits
        /\ UNCHANGED <<now, orderbookCache, threshold, detectorVars,
                       handlerVars, positionVars, trackerVars, ingestVars, windowTiming,
                       hotMarkets, signing, elapsed>>

\* the limit prices (in cents) and amounts executeOrder looks up
LookupPrices == { QInt(45), Q(89, 2) }

LookupSizes == { QInt(100), Q(199, 2) }

HotCosts == {93, 99}

NextPresign ==
    \/ FineTick
    \/ \E cost \in HotCosts : MarkMarketHot("BTC", cost)
    \/ \E side \in PresignSides, price \in priceLevels, size \in sizes :
          PresignOrder("BTC", side, price, size)
    \/ \E call \in signing, signed \in BOOLEAN : OrderSigned(call, signed)
    \/ \E side \in PresignSides, price \in LookupPrices, size \in LookupSizes :
          GetPresignedOrder("BTC", side, "BUY", price, size)

SpecPresign == InitDetect /\ [][NextPresign]_vars

\* a getPresignedOrder call is being answered in this step
Answers(key) ==
    /\ cacheHits' + cacheMisses' = cacheHits + cacheMisses + 1
    /\ lastLookup'.key = key

\* C27: getPresignedOrder never returns a cached order whose age is 30 s or
\* more: a lookup that finds such an entry removes it from the cache and
\* reports a miss.
StaleOrderNeverReturned ==
    [][\A key \in DOMAIN orderCache :
          (Answers(key) /\ DateNow - orderCache[key].createdAt >= PRESIGN_MAX_AGE)
              => /\ ~lastLookup'.hit
                 /\ cacheMisses' = cacheMisses + 1
                 /\ key \notin DOMAIN orderCache']_vars

\* a lookup found an entry of 30 s or more and came back empty-handed
StaleOrderLookedUp ==
    /\ lastLookup.age >= PRESIGN_MAX_AGE
    /\ ~lastLookup.hit
    /\ lastLookup.key \notin DOMAIN orderCache


-----------------------------------------------------------------------------
(* The value of the trades the orderbook handler hands to executeDipTrade *)

\* size_up * ask_up + size_down * ask_down of the call made by handler h,
\* whose two sizes are sizing.sizeUp and sizing.sizeDown (the same number)
tradeValue(h) ==
    QAdd(QMul(handlers[h].size, QInt(handlers[h].opportunity.askUp)),
         QMul(handlers[h].size, QInt(handlers[h].opportunity.askDown)))

\* C28: every executeDipTrade call issued by the orderbook handler has a
\* trade value size_up * ask_up + size_down * ask_down of at most the
\* configured per-trade cap (maxPositionSize).
TradeValueWithinCap ==
    \A h \in Handlers :
        handlers[h].admitted => QLe(tradeValue(h), QInt(maxPositionSize))


-----------------------------------------------------------------------------
(* The payout and the profit of a resolved position *)

ResolvedPositions ==
    {id \in DOMAIN dbPositions : dbPositions[id].status = "resolved"}

\* C29: a resolved position has payout = min(size_up, size_down) (1 USD a
\* share, in cents) and actual_profit = payout - total_cost - fees, whether
\* the outcome was UP or DOWN.
ResolvedPayoutAndProfit ==
    \A id \in ResolvedPositions :
        LET position == dbPositions[id]
            shares == QMin(position.sizeUp, position.sizeDown)
        IN  /\ position.outcome \in {"UP", "DOWN"}
            /\ position.payout = QMul(QInt(100), shares)
            /\ position.actualProfit =
                  QSub(QSub(position.payout, position.totalCost), position.fees)

\* a position whose legs differ in size was resolved DOWN
UnevenPositionResolved ==
    \E id \in ResolvedPositions :
        /\ dbPositions[id].outcome = "DOWN"
        /\ dbPositions[id].sizeUp # dbPositions[id].sizeDown


-----------------------------------------------------------------------------
(* The outcome the tracker gives a position, against what the API answered *)

\* the Gamma API answers the fetch of check c in this step
Answered(c) == checks[c].pc = "fetching" /\ checks'[c] # checks[c]

\* the position that check c is resolving is moved out of open in this step
ResolvesWith(c, outcome) ==
    LET id == Head(checks[c].queue).id
    IN  /\ id \in DOMAIN openPositions
        /\ id \notin DOMAIN openPositions'
        /\ dbPositions'[id].status = "resolved"
        /\ dbPositions'[id].outcome = outcome

\* C30: in live mode a position is resolved UP only when the queried market
\* is closed and its up-price is above 0.9, and DOWN only when its down-price
\* is above 0.9; otherwise (an HTTP failure, an unclosed market, no price
\* above 0.9) the answer leaves the position Open and unchanged.
OutcomeFollowsPrices ==
    [][\A c \in CheckSlots :
          Answered(c) =>
              LET position == Head(checks[c].queue)
                  closed == marketClosed(position.market, checks[c].queried)
                  data == checks'[c].data
              IN  \/ ResolvesWith(c, "UP") /\ closed /\ data = "up"
                  \/ ResolvesWith(c, "DOWN") /\ closed /\ data = "down"
                  \/ UNCHANGED positionVars]_vars

-----------------------------------------------------------------------------
(* The market the tracker queries for a position *)

\* the window in which a position was opened
positionWindow(position) == position.openedAt \div marketDurationMs

\* C31: the market queried to settle a position is the market of the window
\* in which the position was opened, not of the window current at query time.
QueriesPositionWindow ==
    \A c \in CheckSlots :
        checks[c].pc = "fetching"
            => checks[c].queried = positionWindow(Head(checks[c].queue))

-----------------------------------------------------------------------------
(* The position manager under executions, resolutions and failure markings *)

NextPositions ==
    \/ \E a \in PipelineAsksUp : AllIdle /\ HandleOrderbookUpdate("BTC", TRUE, a)
    \/ \E a \in PipelineAsksDown : AllIdle /\ HandleOrderbookUpdate("BTC", FALSE, a)
    \/ \E h \in Handlers : SizeAndAdmit(h)
    \/ \E h \in Handlers, up \in PipelineResponses, down \in PipelineResponses,
          rb \in PipelineResponses, saveOk \in BOOLEAN, logOk \in BOOLEAN :
            ExecuteDipTrade(h, up, down, rb, saveOk, logOk)
    \/ \E h \in Handlers : Finish(h)
    \/ StartResolutionTracker
    \/ TimerFires
    \/ \E c \in CheckSlots, d \in MarketData, saveOk \in BOOLEAN :
          FetchResponse(c, d, saveOk)
    \/ \E c \in CheckSlots : NotifyReturns(c)
    \/ \E id \in PositionIds, saveOk \in BOOLEAN : MarkPositionFailed(id, saveOk)
    \/ \E m \in Markets, w \in Windows : ExchangeCloses(m, w)

\* the process starts with no position stored, on a server in Eastern Time
\* or in UTC
InitPositions ==
    /\ now = StartTime
    /\ orderbookCache = EmptyMap
    /\ activeDips = EmptyMap
    /\ lastTradeTime = EmptyMap
    /\ pendingTrades = {}
    /\ detection = NoDetection
    /\ threshold = DIP_THRESHOLD
    /\ isRunning = TRUE
    /\ maxOpenPositions = MAX_OPEN_POSITIONS
    /\ handlers = [h \in Handlers |-> IdleHandler]
    /\ openPositions = EmptyMap
    /\ dbPositions = EmptyMap
    /\ transitions = EmptyMap
    /\ nextCheckTimeout = FALSE
    /\ checks = [c \in CheckSlots |-> IdleCheck]
    /\ closedMarkets = {}
    /\ serverOffset \in ServerOffsets
    /\ StreamStarted
    /\ PresignerStarted

SpecPositions == InitPositions /\ [][NextPositions]_vars

StoredOpen == {id \in DOMAIN dbPositions : dbPositions[id].status = "open"}

\* C32: after every createPosition, resolvePosition and markPositionFailed,
\* also when the store write throws, the ids in the in-memory cache of open
\* positions are the ids of the positions stored with status open.
CacheMirrorsStore == DOMAIN openPositions = StoredOpen

\* a store write has thrown in createPosition, and another position has
\* been created and settled
WriteThrewAndPositionSettled ==
    /\ \E h \in Handlers : /\ handlers[h].pc = "done"
                           /\ handlers[h].result.success
                           /\ ~handlers[h].positionCreated
    /\ \E id \in DOMAIN dbPositions : dbPositions[id].status # "open"

-----------------------------------------------------------------------------
(* market-data.ts getMsUntilNextWindow, on instants in milliseconds *)

Timeframes == {"1h", "4h", "daily"}

\* TIMEFRAME_PERIOD_SECONDS, in milliseconds
periodMs(timeframe) ==
    IF timeframe = "1h" THEN 60 * 60 * 1000
    ELSE IF timeframe = "4h" THEN 4 * 60 * 60 * 1000
    ELSE 24 * 60 * 60 * 1000

\* getMsUntilNextWindow at the instant at (ms since the epoch, on a server
\* whose zone is a whole number of hours from UTC)
getMsUntilNextWindow(timeframe, at) ==
    LET minutes == (at \div 60000) % 60
        seconds == (at \div 1000) % 60
        ms == at % 1000
        windowMinutes == IF timeframe = "1h" THEN 60 ELSE 15
        minutesUntilBoundary == windowMinutes - (minutes % windowMinutes)
    IN  (minutesUntilBoundary * 60 * 1000) - (seconds * 1000) - ms

\* instants around the boundaries of a quarter, an hour, four hours and a day
BoundaryInstants ==
    { base + delta :
        base \in {0, 15 * 60000, 60 * 60000, 4 * 60 * 60000, 24 * 60 * 60000},
        delta \in {0, 1, 999, 1000, 59999, 60000, 14 * 60000 + 59999} }

\* scheduleNextWindowRotation calls getMsUntilNextWindow (line 639)
GetMsUntilNextWindow(timeframe, at) ==
    /\ windowTiming' = [timeframe |-> timeframe, at |-> at,
                        msUntilWindow |-> getMsUntilNextWindow(timeframe, at)]
    /\ UNCHANGED <<now, orderbookCache, threshold, detectorVars, handlerVars,
                   positionVars, trackerVars, ingestVars, presignVars>>

NextTiming ==
    \E timeframe \in Timeframes, at \in BoundaryInstants :
        GetMsUntilNextWindow(timeframe, at)

SpecTiming == InitDetect /\ [][NextTiming]_vars

\* C33: for every instant and every configured timeframe (1h, 4h, daily) the
\* time until the next boundary is strictly positive and at most one period,
\* the instant plus the result is a boundary of that timeframe, and at a
\* boundary the result is one full period.
NextBoundaryExact ==
    windowTiming.timeframe \in Timeframes =>
        LET period == periodMs(windowTiming.timeframe)
            result == windowTiming.msUntilWindow
        IN  /\ 0 < result
            /\ result <= period
            /\ (windowTiming.at + result) % period = 0
            /\ windowTiming.at % period = 0 => result = period

-----------------------------------------------------------------------------
(* order-presigner.ts and market-data.ts: pre-signed orders across a window
   rotation *)

\* Nothing is due between the prefetch and the boundary: time passes until
\* 30 s before the boundary
LastSecondsOfWindow ==
    /\ ~timers.prefetch
    /\ timers.rotation
    /\ now < getNextPeriodTimestamp(now) - 1
    /\ now' = getNextPeriodTimestamp(now) - 1
    /\ elapsed' = 0
    /\ UNCHANGED <<orderbookCache, threshold, detectorVars, handlerVars,
                   positionVars, trackerVars, ingestVars, windowTiming,
                   orderCache, hotMarkets, signing, cacheHits, cacheMisses,
                   lastLookup>>

\* the last 30 s of the first window and the first 30 s of the second
AroundBoundary ==
    /\ periodSeconds - 1 <= now
    /\ now <= periodSeconds

\* the token id of a MarketTokens record for a side
tokenIdOfSide(tokens, side) ==
    IF side = "UP" THEN tokens.tokenIdUp ELSE tokens.tokenIdDown

\* The presigner and executeOrder's lookup around the first rotation
NextPresignRotation ==
    \/ rotation.completed = 0 /\ PrefetchFires
    \/ \E answered \in BOOLEAN : PrefetchFetch(answered)
    \/ LastSecondsOfWindow
    \/ AroundBoundary /\ FineTickUntil(6 * periodSeconds + PRESIGN_MAX_AGE)
    \/ rotation.completed = 0 /\ RotationFires
    \/ \E answered \in BOOLEAN : RotationFetch(answered)
    \/ MarkMarketHot("BTC", 93)
    \/ \E price \in priceLevels, size \in sizes :
          AroundBoundary /\ PresignOrder("BTC", "UP", price, size)
    \/ \E call \in signing : OrderSigned(call, TRUE)
    \/ /\ AroundBoundary
       /\ cacheHits + cacheMisses = 0
       /\ GetPresignedOrder("BTC", "UP", "BUY", QInt(45), QInt(100))

SpecPresignRotation == InitDetect /\ [][NextPresignRotation]_vars

\* C34: every pre-signed order that getPresignedOrder hands to executeOrder
\* for a market and side was signed for the token id that getMarketTokens
\* holds for that market and side at that time.
PostedOrderSignedForCurrentToken ==
    [][\A key \in DOMAIN orderCache :
          (Answers(key) /\ lastLookup'.hit)
              => orderCache[key].tokenId =
                    tokenIdOfSide(getMarketTokens(key[1]), key[2])]_vars

\* C35: whenever a market is not in the hot set, the pre-sign cache holds no
\* order for that market.
ColdMarketHasNoCachedOrder ==
    \A key \in DOMAIN orderCache : key[1] \in hotMarkets

-----------------------------------------------------------------------------
(* index.ts handleOrderbookUpdate with Strategy B enabled: the handler
   suspends in handleStrategyB before it detects *)

\* the snapshots of BTC's two nearest windows with config.strategyB.enabled
\* set, and the handlers resumed from handleStrategyB
NextStrategyB ==
    \/ Tick
    \/ \E data \in DipSnapshots :
          updateCount < MaxDipMessages /\ SnapshotArrives(TRUE, data)
    \/ \E h \in Handlers : StrategyBReturns(h)

SpecStrategyB == InitDetect /\ [][NextStrategyB]_vars

\* an invocation of the handler that has not yet reached detectDip
AwaitsDetection(h) == handlers[h].pc = "strategyB"

\* C36: detection for an orderbook update runs before any later update is
\* applied to the same book: no book changes while an invocation of the
\* handler for it has yet to call detectDip.
DetectsBeforeLaterUpdate ==
    [][\A h \in Handlers :
          AwaitsDetection(h)
              => orderbookCache'[handlers[h].book] =
                    orderbookCache[handlers[h].book]]_vars

-----------------------------------------------------------------------------
(* market-data.ts scheduleNextWindowRotation: the chain of rotation timers,
   on instants in milliseconds *)

MaxInstant == 93600000      \* 26 hours, in milliseconds

\* the time executeWindowRotation takes from the timer's firing to its call
\* of scheduleNextWindowRotation (line 829), in milliseconds
RotationDurations == {0, 2000}

\* the instant for which the rotation timer is set
rotationDueAt == windowTiming.at + windowTiming.msUntilWindow

\* startOrderbookStreams, line 606: the first scheduling
StartOrderbookStreams(timeframe, at) ==
    /\ windowTiming = NoTiming
    /\ GetMsUntilNextWindow(timeframe, at)

\* The rotation timer fires at its instant, executeWindowRotation runs and
\* calls scheduleNextWindowRotation, which clears the timers and sets the one
\* rotation timer anew
RotationTimerFires(duration) ==
    /\ windowTiming # NoTiming
    /\ rotationDueAt + duration <= MaxInstant
    /\ GetMsUntilNextWindow(windowTiming.timeframe, rotationDueAt + duration)

NextSchedule ==
    \/ \E timeframe \in Timeframes, at \in BoundaryInstants :
          StartOrderbookStreams(timeframe, at)
    \/ \E duration \in RotationDurations : RotationTimerFires(duration)

SpecSchedule == InitDetect /\ [][NextSchedule]_vars

\* the first boundary of the timeframe after the instant
followingBoundary(timeframe, instant) ==
    (instant \div periodMs(timeframe) + 1) * periodMs(timeframe)

\* C37: every executed rotation schedules the next rotation at the window
\* boundary that follows the instant at which it executed.
NextRotationAtFollowingBoundary ==
    [][windowTiming # NoTiming
          => rotationDueAt' =
                followingBoundary(windowTiming.timeframe, rotationDueAt)]_vars

\* the same for the 1h timeframe alone
HourlyRotationAtFollowingBoundary ==
    [][(windowTiming # NoTiming /\ windowTiming.timeframe = "1h")
          => rotationDueAt' =
                followingBoundary(windowTiming.timeframe, rotationDueAt)]_vars

-----------------------------------------------------------------------------
(* index.ts handleOrderbookUpdate on the books of several windows: from the
   update to the orders of executeDipTrade *)

\* the snapshots of BTC's two nearest windows, and the handlers taken up to
\* the posting of their orders
NextWindows ==
    \/ Tick
    \/ \E data \in DipSnapshots :
          updateCount < MaxDipMessages /\ HandleSnapshot(data)
    \/ \E h \in Handlers : SizeAndAdmit(h)

SpecWindows == InitDetect /\ [][NextWindows]_vars

\* the token ids of the window whose orderbook the invocation was called with
tokensOfBook(h) ==
    { marketTokens[handlers[h].book].tokenIdUp,
      marketTokens[handlers[h].book].tokenIdDown }

\* C38: the token ids passed to executeDipTrade are those of the market
\* window of the orderbook on which the opportunity was detected.
ExecutesOnDetectedWindow ==
    \A h \in Handlers :
        \A i \in DOMAIN handlers[h].orders :
            handlers[h].orders[i].tokenId \in tokensOfBook(h)

\* the sizes an invocation submits for its opportunity on the orderbook
sizingOn(opportunity, orderbook) ==
    LET sizing == calculatePositionSizeWithLiquidity(opportunity, orderbook)
    IN  <<sizing.viable, sizing.sizeUp, sizing.sizeDown>>

\* the invocation is suspended between detection and sizing over the step
SuspendedBeforeSizing(h) ==
    /\ handlers[h].pc = "notifyDip"
    /\ handlers'[h] = handlers[h]

\* C40: the orderbook state used to size the orders is the state on which
\* detection admitted the opportunity: no step taken while the handler is
\* suspended between detection and sizing changes the sizes it will submit.
SizesFromDetectedState ==
    [][\A h \in Handlers :
          SuspendedBeforeSizing(h)
              => \E before \in {orderbookCache[handlers[h].book]},
                    after \in {orderbookCache'[handlers[h].book]} :
                    sizingOn(handlers[h].opportunity, after) =
                        sizingOn(handlers[h].opportunity, before)]_vars

-----------------------------------------------------------------------------
(* market-data.ts: the orderbooks across the rotations *)

\* The snapshots of the two tokens of BTC's windows.  The size offered tells
\* the window: 1000 shares more than its period timestamp
WindowSnapshots ==
    { [asset_id |-> tokenIdOf("BTC", p, o), bids |-> <<>>,
       asks |-> <<Level(50, 1000 + p)>>] :
        p \in {k * periodSeconds : k \in 0 .. MaxRotations}, o \in {"UP", "DOWN"} }

\* the rotations with their tokens prefetched, the new connections opening
\* and the snapshots they deliver
NextLadders ==
    \/ PrefetchFires
    \/ PrefetchFetch(TRUE)
    \/ RotationFires
    \/ \E id \in SocketIds : SocketOpens(id)
    \/ \E data \in WindowSnapshots :
          /\ updateCount < MaxMessages
          /\ Delivered(data)
          /\ HandleSnapshot(data)

SpecLadders == InitDetect /\ [][NextLadders]_vars

\* the windows whose snapshots make up a ladder
windowsOf(ladder) == { ladder[i].size - 1000 : i \in DOMAIN ladder }

\* C39: every orderbook passed to detection has its UP and DOWN ladders built
\* from updates for the tokens of one and the same market window.
LaddersOfOneWindow ==
    \A key \in DOMAIN orderbookCache :
        Cardinality(windowsOf(orderbookCache[key].UP.asks)
                    \cup windowsOf(orderbookCache[key].DOWN.asks)) <= 1

=============================================================================
